---- MODULE Spec2Model ----
(***************************************************************************)
(* chat-max (chatmax-v0-4-5.py): the preference merge done by the chat     *)
(* worker thread, the preference key, the credential bootstrap and         *)
(* settings dialogs, save_settings, sending a message (UI thread, worker   *)
(* threads, timers), leaving the program, the messages handed to the chat  *)
(* call, the conversation log written by                                   *)
(* the UI thread and the workers statement by statement, the preset        *)
(* applied at startup, and saving and loading a conversation, as state     *)
(* machines.                                                               *)
(*                                                                         *)
(* Text is a sequence of one-character strings, so that lower(), strip()   *)
(* and split(' is ', 1) are computed character by character.  A stored     *)
(* preference entry {line, ts} is modelled by its line: ts takes no part   *)
(* in keying, ordering or truncation.                                      *)
(***************************************************************************)
EXTENDS Integers, Sequences, FiniteSets, TLC

VARIABLES
    \* --- persisted files ---
    settings,        \* settings.json as the record load_settings() returns
    prefs_exists,    \* os.path.exists(PREFS_PATH)
    prefs,           \* preferences.json: the ordered list of lines
    \* --- globals of the running program ---
    ui,              \* "off", "main", "prompt_key", "prompt_ep"
    use_local_var,   \* the Tk BooleanVar behind the mode checkbox
    PREFS_LIMIT,     \* runtime preference retention limit
    now,             \* int(time.time())
    \* --- the chat worker thread (send_message.worker) ---
    wpc,             \* its position
    new_lines,       \* stripped non-empty lines of the extraction reply
    existing,        \* load_prefs_list() result read at line 1081
    keys,            \* ordered key list
    mapping,         \* key -> line
    idx,             \* index of the next new line to apply
    merged,          \* final before truncation (line 1119)
    final,           \* final after truncation (lines 1121-1128)
    limit,           \* the limit read at line 1123
    \* --- history variables ---
    written,         \* the last list handed to save_prefs_list by a merge
    applied,         \* what the last iteration of the apply loop found
    shown,           \* the last startup / removal and the prompt it showed
    last_op,         \* the last mode change (checkbox or switch button)
    last_removed,    \* the credential removed most recently, "None" if none
    ss_call,         \* the last call of save_settings made for itself: the
                     \* record read from the file and the arguments
    \* --- pref_key applied to two statements ---
    stmt1, stmt2, key1, key2, kpc,
    \* --- one statement merged twice ---
    rpc, rstmt, rlimit, rfirst, rsecond,
    \* --- the conversation and the send controls ---
    history,         \* short-term history, trimmed to HISTORY_LIMIT
    full_history,    \* the untrimmed conversation log
    HISTORY_LIMIT,   \* runtime history retention limit
    send_btn,        \* state of the Send button: "normal" / "disabled"
    entry,           \* state of the entry field: "normal" / "disabled"
    \* --- the requests: one worker thread, flag and timer per send_message ---
    sent,            \* number of messages sent
    wstate,          \* request -> position of its worker thread
    wnew,            \* request -> new_lines of its worker
    wexisting,       \* request -> existing of its worker
    response_received, \* request -> the flag the timeout callback tests
    timeout_id,      \* request -> "none", "scheduled", "fired", "cancelled"
    after0,          \* callbacks queued by root.after(0, ...), in order
    chat_calls,      \* request -> number of chat-completion calls made
    payload,         \* request -> messages_for_gpt, the list handed to its worker
    wentry,          \* request -> the entry its worker is in the middle of appending
    log_req,         \* for each entry of full_history: its request and kind
    \* --- saving and loading a conversation ---
    conv_file,       \* text of the saved conversation file
    saved_log,       \* full_history and history when the file was written
    unsaved_changes, \* the flag on_exit tests
    cpc,             \* what the user did last to the conversation: "edit" (a
                     \* message), "saved", "loaded", "new", "exit..." (an
                     \* exit request and its answer); "off" before any
    \* --- the startup preset ---
    last_selected,   \* presets.json: last_selected
    preset_file,     \* the parsed content of personalities/<name>.json
    sliders,         \* the eight slider variables
    ppc

vars == <<settings, prefs_exists, prefs, ui, use_local_var, PREFS_LIMIT, now,
          wpc, new_lines, existing, keys, mapping, idx, merged, final, limit,
          written, applied, shown, last_op, last_removed, ss_call,
          stmt1, stmt2, key1, key2, kpc,
          rpc, rstmt, rlimit, rfirst, rsecond,
          history, full_history, HISTORY_LIMIT, send_btn, entry,
          sent, wstate, wnew, wexisting, response_received, timeout_id, after0,
          chat_calls, payload, wentry, log_req, conv_file, saved_log, unsaved_changes, cpc,
          last_selected, preset_file, sliders, ppc>>

(***************************************************************************)
(* Bounds of the model and constants of the program                        *)
(***************************************************************************)
MaxStored == 2      \* entries in preferences.json in the initial state
MaxNew == 2         \* lines in one extraction reply
MaxLimit == 1       \* the limits the user picks are 0..MaxLimit
MaxKeyLen == 6       \* words of a statement handed to pref_key
MaxClock == 2       \* values of the clock
MaxReq == 2         \* messages sent in one run
MaxPresetLen == 9   \* values in a preset file: 7..MaxPresetLen
MaxLog == 2         \* entries of a conversation that is saved and loaded

PREFS_DEFAULT_LINES == 20
HISTORY_DEFAULT_LINES == 20
LimitCap == 50

Min(S) == CHOOSE x \in S : \A y \in S : x <= y
Max(S) == CHOOSE x \in S : \A y \in S : x >= y
Last(s) == s[Len(s)]

(***************************************************************************)
(* Text: str.lower(), str.strip(), and the search for ' is '               *)
(***************************************************************************)
LowerChar(c) ==
    CASE c = "A" -> "a"
      [] c = "B" -> "b"
      [] c = "I" -> "i"
      [] c = "S" -> "s"
      [] c = "Y" -> "y"
      [] OTHER -> c

Lower(s) == [i \in 1..Len(s) |-> LowerChar(s[i])]

IsSpace(c) == c = " "

RECURSIVE LStrip(_)
LStrip(s) == IF s = <<>> THEN s
             ELSE IF IsSpace(Head(s)) THEN LStrip(Tail(s)) ELSE s

RECURSIVE RStrip(_)
RStrip(s) == IF s = <<>> THEN s
             ELSE IF IsSpace(Last(s)) THEN RStrip(SubSeq(s, 1, Len(s) - 1)) ELSE s

Strip(s) == RStrip(LStrip(s))

IsSep == <<" ", "i", "s", " ">>

\* the positions at which ' is ' occurs in s
Occurrences(s) == {i \in 1..(Len(s) - 3) : SubSeq(s, i, i + 3) = IsSep}

\* mutants of pref_key: no lower-casing; split at the last ' is '
pref_key_nolower(line) ==
    IF Occurrences(line) # {}
    THEN Strip(SubSeq(line, 1, Min(Occurrences(line)) - 1))
    ELSE line

pref_key_lastsep(line) ==
    LET low == Lower(line) IN
    IF Occurrences(low) # {}
    THEN Strip(SubSeq(low, 1, Max(Occurrences(low)) - 1))
    ELSE low

\* pref_key, lines 1086-1090: low.split(' is ', 1)[0].strip(), else low
pref_key(line) ==
    LET low == Lower(line) IN
    IF Occurrences(low) # {}
    THEN Strip(SubSeq(low, 1, Min(Occurrences(low)) - 1))
    ELSE low

(***************************************************************************)
(* The merge, lines 1079-1128                                              *)
(***************************************************************************)
\* [l.strip() for l in extracted.splitlines() if l.strip()]
RECURSIVE StripLines(_)
StripLines(raw) ==
    IF raw = <<>> THEN <<>>
    ELSE IF Strip(Head(raw)) = <<>> THEN StripLines(Tail(raw))
         ELSE <<Strip(Head(raw))>> \o StripLines(Tail(raw))

NoMap == [k \in {} |-> <<>>]

Put(m, k, v) == [x \in (DOMAIN m) \cup {k} |-> IF x = k THEN v ELSE m[x]]

\* list.remove(k): drops the first occurrence
RECURSIVE RemoveFirst(_, _)
RemoveFirst(s, k) ==
    IF s = <<>> THEN <<>>
    ELSE IF Head(s) = k THEN Tail(s)
         ELSE <<Head(s)>> \o RemoveFirst(Tail(s), k)

\* mutant of BuildExisting: duplicates in the file are not skipped
RECURSIVE BuildExisting_nodedup(_, _, _)
BuildExisting_nodedup(items, ks, m) ==
    IF items = <<>> THEN [keys |-> ks, mapping |-> m]
    ELSE LET ln == Strip(Head(items))
             k == pref_key(ln)
         IN IF ln = <<>> THEN BuildExisting_nodedup(Tail(items), ks, m)
            ELSE BuildExisting_nodedup(Tail(items), Append(ks, k), Put(m, k, ln))

\* lines 1092-1103: first occurrence of each key of the stored list
RECURSIVE BuildExisting(_, _, _)
BuildExisting(items, ks, m) ==
    IF items = <<>> THEN [keys |-> ks, mapping |-> m]
    ELSE LET ln == Strip(Head(items))
             k == pref_key(ln)
         IN IF ln = <<>> THEN BuildExisting(Tail(items), ks, m)
            ELSE IF k \in DOMAIN m THEN BuildExisting(Tail(items), ks, m)
            ELSE BuildExisting(Tail(items), Append(ks, k), Put(m, k, ln))

\* mutants of ApplyNew: the old position is kept; the key goes to the front
ApplyNew_keeppos(ks, m, nl) ==
    LET k == pref_key(nl) IN
    [keys |-> IF k \in DOMAIN m THEN ks ELSE Append(ks, k),
     mapping |-> Put(m, k, nl)]

ApplyNew_front(ks, m, nl) ==
    LET k == pref_key(nl) IN
    [keys |-> <<k>> \o (IF k \in DOMAIN m THEN RemoveFirst(ks, k) ELSE ks),
     mapping |-> Put(m, k, nl)]

\* lines 1107-1116: one iteration of the loop over new_lines
ApplyNew(ks, m, nl) ==
    LET k == pref_key(nl) IN
    [keys |-> Append(IF k \in DOMAIN m THEN RemoveFirst(ks, k) ELSE ks, k),
     mapping |-> Put(m, k, nl)]

\* line 1119: final = [mapping[k] for k in keys]
Rebuild(ks, m) == [i \in 1..Len(ks) |-> m[ks[i]]]

\* mutants of Truncate: one entry too many is kept; the newest are dropped
RECURSIVE Truncate_offbyone(_, _)
Truncate_offbyone(lst, lim) ==
    IF Len(lst) > lim + 1 THEN Truncate_offbyone(Tail(lst), lim) ELSE lst

RECURSIVE Truncate_newest(_, _)
Truncate_newest(lst, lim) ==
    IF Len(lst) > lim THEN Truncate_newest(SubSeq(lst, 1, Len(lst) - 1), lim) ELSE lst

\* lines 1123-1126: while len(final) > limit: final.pop(0)
RECURSIVE Truncate(_, _)
Truncate(lst, lim) ==
    IF lim >= 0 /\ Len(lst) > lim THEN Truncate(Tail(lst), lim) ELSE lst

\* the whole merge of lines 1092-1128 on a loaded list
RECURSIVE ApplyAll(_, _, _)
ApplyAll(ks, m, nls) ==
    IF nls = <<>> THEN [keys |-> ks, mapping |-> m]
    ELSE LET st == ApplyNew(ks, m, Head(nls))
         IN ApplyAll(st.keys, st.mapping, Tail(nls))

MergePrefs(items, nls, lim) ==
    LET b == BuildExisting(items, <<>>, NoMap)
        st == ApplyAll(b.keys, b.mapping, nls)
    IN Truncate(Rebuild(st.keys, st.mapping), lim)

(***************************************************************************)
(* settings.json                                                           *)
(***************************************************************************)
NoInt == 0 - 1     \* an integer field that is absent (None)

\* load_settings, lines 385-402, on a missing file
SettingsDefault ==
    [use_local_ai |-> TRUE,
     openai_api_key |-> "None",
     server_endpoint |-> "None",
     last_credential_deleted |-> "None",
     last_credential_deleted_ts |-> NoInt,
     ai_history_lines |-> NoInt,
     pref_memory_lines |-> NoInt,
     ai_model |-> "None"]

\* mutant of save_settings: a removal does not record the marker
save_settings_nomarker(data, use_local, api_key, endpoint, last_deleted, ai_history_lines, pref_memory_lines, ai_model, t) ==
    [data EXCEPT
       !.use_local_ai = use_local,
       !.openai_api_key = IF api_key = "None" THEN @
                          ELSE IF api_key # "" THEN api_key ELSE "None",
       !.server_endpoint = IF endpoint = "None" THEN @
                           ELSE IF endpoint # "" THEN endpoint ELSE "None",
       !.ai_history_lines = IF ai_history_lines = NoInt THEN @ ELSE ai_history_lines,
       !.pref_memory_lines = IF pref_memory_lines = NoInt THEN @ ELSE pref_memory_lines,
       !.ai_model = IF ai_model = "None" THEN @ ELSE ai_model]

\* mutant of save_settings: the record is rebuilt from the credentials given
save_settings_rebuilt(data, use_local, api_key, endpoint, last_deleted, ai_history_lines, pref_memory_lines, ai_model, t) ==
    [data EXCEPT
       !.use_local_ai = use_local,
       !.openai_api_key = IF api_key # "None" /\ api_key # "" THEN api_key ELSE "None",
       !.server_endpoint = IF endpoint # "None" /\ endpoint # "" THEN endpoint ELSE "None",
       !.last_credential_deleted = IF last_deleted = "None" THEN @
                                   ELSE IF last_deleted # "" THEN last_deleted ELSE "None",
       !.last_credential_deleted_ts = IF last_deleted = "None" THEN @
                                      ELSE IF last_deleted # "" THEN t ELSE NoInt,
       !.ai_history_lines = IF ai_history_lines = NoInt THEN @ ELSE ai_history_lines,
       !.pref_memory_lines = IF pref_memory_lines = NoInt THEN @ ELSE pref_memory_lines,
       !.ai_model = IF ai_model = "None" THEN @ ELSE ai_model]

\* save_settings, lines 2240-2301; an argument left at None is "None" / NoInt,
\* t is int(time.time())
save_settings(data, use_local, api_key, endpoint, last_deleted, ai_history_lines, pref_memory_lines, ai_model, t) ==
    [data EXCEPT
       !.use_local_ai = use_local,
       !.openai_api_key = IF api_key = "None" THEN @
                          ELSE IF api_key # "" THEN api_key ELSE "None",
       !.server_endpoint = IF endpoint = "None" THEN @
                           ELSE IF endpoint # "" THEN endpoint ELSE "None",
       !.last_credential_deleted = IF last_deleted = "None" THEN @
                                   ELSE IF last_deleted # "" THEN last_deleted ELSE "None",
       !.last_credential_deleted_ts = IF last_deleted = "None" THEN @
                                      ELSE IF last_deleted # "" THEN t ELSE NoInt,
       !.ai_history_lines = IF ai_history_lines = NoInt THEN @ ELSE ai_history_lines,
       !.pref_memory_lines = IF pref_memory_lines = NoInt THEN @ ELSE pref_memory_lines,
       !.ai_model = IF ai_model = "None" THEN @ ELSE ai_model]

\* get_saved_api_key / get_saved_endpoint, lines 405-426: "None" when not saved
get_saved_api_key(data) == data.openai_api_key
get_saved_endpoint(data) == data.server_endpoint

\* lines 192-203: PREFS_LIMIT at startup
StartupPrefsLimit(data) ==
    IF data.pref_memory_lines = NoInt THEN PREFS_DEFAULT_LINES
    ELSE Max({0, Min({LimitCap, data.pref_memory_lines})})

\* load_prefs_list, lines 356-382
load_prefs_list == IF prefs_exists THEN prefs ELSE <<>>

(***************************************************************************)
(* Inputs                                                                  *)
(***************************************************************************)
SeqsUpTo(S, n) == UNION {[1..k -> S] : k \in 0..n}

\* lines of preferences.json: "a is x", "A is y", "b"
StoredPool ==
    { <<"a", " ", "i", "s", " ", "x">>,
      <<"A", " ", "i", "s", " ", "y">>,
      <<"b">> }

\* lines of an extraction reply: "a is x", "b", "c IS x", and a blank line
LinePool ==
    { <<"a", " ", "i", "s", " ", "x">>,
      <<"b">>,
      <<"c", " ", "I", "S", " ", "x">> }

BlankLine == <<" ">>

StoredLists == SeqsUpTo(StoredPool, MaxStored)
Replies == SeqsUpTo(LinePool \cup {BlankLine}, MaxNew)
Limits == 0..MaxLimit

(***************************************************************************)
(* Initial states                                                          *)
(***************************************************************************)
WorkerIdle ==
    /\ wpc = "idle"
    /\ new_lines = <<>>
    /\ existing = <<>>
    /\ keys = <<>>
    /\ mapping = NoMap
    /\ idx = 0
    /\ merged = <<>>
    /\ final = <<>>
    /\ limit = 0
    /\ written = [set |-> FALSE, list |-> <<>>]
    /\ applied = [set |-> FALSE, present |-> FALSE, before |-> <<>>, old |-> <<>>]

KeyIdle ==
    /\ stmt1 = <<>> /\ stmt2 = <<>> /\ key1 = <<>> /\ key2 = <<>> /\ kpc = "off"

TwiceIdle ==
    /\ rpc = "off" /\ rstmt = <<>> /\ rlimit = 0 /\ rfirst = <<>> /\ rsecond = <<>>

NoShown == [kind |-> "none", key |-> "None", ep |-> "None", marker |-> "None",
            local |-> TRUE, prompt |-> "none"]

NoOp == [kind |-> "none", ui_before |-> "off", var_before |-> TRUE,
         key_before |-> "None", ep_before |-> "None",
         var |-> TRUE, flag |-> TRUE, key |-> "None", ep |-> "None",
         prompt |-> "none"]

\* the main window is up, preferences.json holds any list (or is missing)
InitRunning ==
    /\ settings \in {[SettingsDefault EXCEPT !.pref_memory_lines = l] :
                       l \in Limits \cup {NoInt}}
    /\ PREFS_LIMIT = StartupPrefsLimit(settings)
    /\ use_local_var = settings.use_local_ai
    /\ ui = "main"
    /\ now = 0
    /\ shown = NoShown
    /\ last_op = NoOp
    /\ last_removed = "None"
    /\ prefs_exists \in BOOLEAN
    /\ prefs \in IF prefs_exists THEN StoredLists ELSE {<<>>}

credVars == <<settings, ui, use_local_var, now, shown, last_op, last_removed>>
storeVars == <<prefs_exists, prefs>>
workerVars == <<wpc, new_lines, existing, keys, mapping, idx, merged, final,
                limit, written, applied>>
keyVars == <<stmt1, stmt2, key1, key2, kpc>>
twiceVars == <<rpc, rstmt, rlimit, rfirst, rsecond>>
logVars == <<history, full_history, HISTORY_LIMIT>>
ctlVars == <<send_btn, entry>>
reqVars == <<sent, wstate, wnew, wexisting, response_received, timeout_id, after0,
             chat_calls, payload, wentry, log_req>>
convVars == <<conv_file, saved_log, unsaved_changes, cpc>>
presetVars == <<last_selected, preset_file, sliders, ppc>>
callVars == <<ss_call>>
laterVars == <<logVars, ctlVars, reqVars, convVars, presetVars, callVars>>

Reqs == 1..MaxReq

\* lines 138-145: the slider variables as created
SliderDefaults ==
    [friendliness |-> 2, professionalism |-> 1, profanity |-> 0, age |-> 30,
     gender |-> 1, humor |-> 0, sarcasm |-> 0, introversion |-> 1]

\* lines 180-191: HISTORY_LIMIT at startup
StartupHistoryLimit(data) ==
    IF data.ai_history_lines = NoInt THEN HISTORY_DEFAULT_LINES
    ELSE Max({0, Min({LimitCap, data.ai_history_lines})})

\* an empty conversation, the send controls as created (lines 127-135)
LogIdle ==
    /\ history = <<>> /\ full_history = <<>>
    /\ HISTORY_LIMIT = HISTORY_DEFAULT_LINES

CtlIdle == send_btn = "normal" /\ entry = "normal"

\* no message sent yet
ReqIdle ==
    /\ sent = 0
    /\ wstate = [r \in Reqs |-> "none"]
    /\ wnew = [r \in Reqs |-> <<>>]
    /\ wexisting = [r \in Reqs |-> <<>>]
    /\ response_received = [r \in Reqs |-> FALSE]
    /\ timeout_id = [r \in Reqs |-> "none"]
    /\ after0 = <<>>
    /\ chat_calls = [r \in Reqs |-> 0]
    /\ payload = [r \in Reqs |-> <<>>]
    /\ wentry = [r \in Reqs |-> <<>>]
    /\ log_req = <<>>

ConvIdle ==
    /\ conv_file = <<>>
    /\ saved_log = [full |-> <<>>, short |-> <<>>]
    /\ unsaved_changes = FALSE
    /\ cpc = "off"

\* os.path.exists(fn) is false for the preset file
NoFile == [form |-> "missing", values |-> <<>>]

PresetIdle ==
    /\ last_selected = "None" /\ preset_file = NoFile
    /\ sliders = SliderDefaults /\ ppc = "off"

\* save_settings not called for itself
NoCall == [made |-> FALSE]
CallIdle == ss_call = NoCall

LaterIdle == LogIdle /\ CtlIdle /\ ReqIdle /\ ConvIdle /\ PresetIdle /\ CallIdle

(***************************************************************************)
(* The chat worker: preference extraction and merge, lines 1019-1137       *)
(***************************************************************************)
\* send_message starts the thread (lines 1270-1272)
StartWorker ==
    /\ ui = "main"
    /\ wpc = "idle"
    /\ wpc' = "extract"
    /\ UNCHANGED <<new_lines, existing, keys, mapping, idx, merged, final,
                   limit, written, applied>>
    /\ UNCHANGED <<credVars, storeVars, PREFS_LIMIT, keyVars, twiceVars>>
    /\ UNCHANGED laterVars

\* lines 1066-1079: the extraction call returns text (the empty reply stands
\* for a failed call too) and the text is split into stripped non-empty lines
Extract ==
    /\ wpc = "extract"
    /\ \E raw \in Replies :
         /\ new_lines' = StripLines(raw)
         /\ wpc' = IF StripLines(raw) = <<>> THEN "chat" ELSE "load"
    /\ UNCHANGED <<existing, keys, mapping, idx, merged, final, limit,
                   written, applied>>
    /\ UNCHANGED <<credVars, storeVars, PREFS_LIMIT, keyVars, twiceVars>>
    /\ UNCHANGED laterVars

\* lines 1080-1103: load the stored list, then build keys and mapping from it
LoadExisting ==
    /\ wpc = "load"
    /\ existing' = load_prefs_list
    /\ LET b == BuildExisting(load_prefs_list, <<>>, NoMap) IN
         /\ keys' = b.keys
         /\ mapping' = b.mapping
    /\ idx' = 1
    /\ wpc' = "apply"
    /\ UNCHANGED <<new_lines, merged, final, limit, written, applied>>
    /\ UNCHANGED <<credVars, storeVars, PREFS_LIMIT, keyVars, twiceVars>>
    /\ UNCHANGED laterVars

\* lines 1106-1116, one iteration
ApplyNewLine ==
    /\ wpc = "apply"
    /\ idx <= Len(new_lines)
    /\ LET st == ApplyNew(keys, mapping, new_lines[idx]) IN
         /\ keys' = st.keys
         /\ mapping' = st.mapping
    /\ applied' = [set |-> TRUE,
                   present |-> pref_key(new_lines[idx]) \in DOMAIN mapping,
                   before |-> keys,
                   old |-> IF pref_key(new_lines[idx]) \in DOMAIN mapping
                           THEN mapping[pref_key(new_lines[idx])] ELSE <<>>]
    /\ idx' = idx + 1
    /\ UNCHANGED <<wpc, new_lines, existing, merged, final, limit, written>>
    /\ UNCHANGED <<credVars, storeVars, PREFS_LIMIT, keyVars, twiceVars>>
    /\ UNCHANGED laterVars

\* lines 1119-1128: the loop is over; rebuild and enforce the limit
RebuildTruncate ==
    /\ wpc = "apply"
    /\ idx > Len(new_lines)
    /\ merged' = Rebuild(keys, mapping)
    /\ limit' = PREFS_LIMIT
    /\ final' = Truncate(Rebuild(keys, mapping), PREFS_LIMIT)
    /\ wpc' = "save"
    /\ UNCHANGED <<new_lines, existing, keys, mapping, idx, written, applied>>
    /\ UNCHANGED <<credVars, storeVars, PREFS_LIMIT, keyVars, twiceVars>>
    /\ UNCHANGED laterVars

\* lines 1130-1134: save_prefs_list(final)
SavePrefs ==
    /\ wpc = "save"
    /\ prefs' = final
    /\ prefs_exists' = TRUE
    /\ written' = [set |-> TRUE, list |-> final]
    /\ wpc' = "chat"
    /\ UNCHANGED <<new_lines, existing, keys, mapping, idx, merged, final,
                   limit, applied>>
    /\ UNCHANGED <<credVars, PREFS_LIMIT, keyVars, twiceVars>>
    /\ UNCHANGED laterVars

\* the rest of the worker (lines 1139-1267) leaves the preference store alone
FinishWorker ==
    /\ wpc = "chat"
    /\ wpc' = "idle"
    /\ new_lines' = <<>>
    /\ existing' = <<>>
    /\ keys' = <<>>
    /\ mapping' = NoMap
    /\ idx' = 0
    /\ merged' = <<>>
    /\ final' = <<>>
    /\ limit' = 0
    /\ written' = [set |-> FALSE, list |-> <<>>]
    /\ applied' = [set |-> FALSE, present |-> FALSE, before |-> <<>>, old |-> <<>>]
    /\ UNCHANGED <<credVars, storeVars, PREFS_LIMIT, keyVars, twiceVars>>
    /\ UNCHANGED laterVars

(***************************************************************************)
(* Settings menu: preference limit and Clear Preferences (UI thread)       *)
(***************************************************************************)
\* limit_prefs.on_save, lines 1559-1580
LimitPrefsSave ==
    /\ ui = "main"
    /\ \E val \in Limits :
         /\ settings' = save_settings(settings, use_local_var, "None", "None",
                                      "None", NoInt, val, "None", now)
         /\ PREFS_LIMIT' = val
    /\ UNCHANGED <<ui, use_local_var, now, shown, last_op, last_removed>>
    /\ UNCHANGED <<storeVars, workerVars, keyVars, twiceVars>>
    /\ UNCHANGED laterVars

\* clear_prefs, lines 1606-1623, confirmed by the user
ClearPrefs ==
    /\ ui = "main"
    /\ prefs_exists
    /\ prefs_exists' = FALSE
    /\ prefs' = <<>>
    /\ UNCHANGED <<credVars, PREFS_LIMIT, workerVars, keyVars, twiceVars>>
    /\ UNCHANGED laterVars

InitMerge == InitRunning /\ WorkerIdle /\ KeyIdle /\ TwiceIdle /\ LaterIdle

NextMerge ==
    \/ StartWorker
    \/ Extract
    \/ LoadExisting
    \/ ApplyNewLine
    \/ RebuildTruncate
    \/ SavePrefs
    \/ FinishWorker
    \/ LimitPrefsSave
    \/ ClearPrefs

SpecMerge == InitMerge /\ [][NextMerge]_vars

(***************************************************************************)
(* One statement submitted twice: two worker runs whose extraction reply   *)
(* is the same single line, each run being lines 1077-1134 without         *)
(* interruption                                                            *)
(***************************************************************************)
InitTwice ==
    /\ InitRunning /\ WorkerIdle /\ KeyIdle /\ LaterIdle
    /\ rpc = "start" /\ rstmt = <<>> /\ rlimit = 0 /\ rfirst = <<>> /\ rsecond = <<>>

MergeFirst ==
    /\ rpc = "start"
    /\ \E raw \in LinePool \cup StoredPool :
         /\ rstmt' = raw
         /\ prefs' = MergePrefs(load_prefs_list, StripLines(<<raw>>), PREFS_LIMIT)
         /\ rfirst' = MergePrefs(load_prefs_list, StripLines(<<raw>>), PREFS_LIMIT)
    /\ prefs_exists' = TRUE
    /\ rlimit' = PREFS_LIMIT
    /\ rpc' = "once"
    /\ UNCHANGED <<rsecond, credVars, PREFS_LIMIT, workerVars, keyVars>>
    /\ UNCHANGED laterVars

MergeSecond ==
    /\ rpc = "once"
    /\ prefs' = MergePrefs(load_prefs_list, StripLines(<<rstmt>>), PREFS_LIMIT)
    /\ rsecond' = MergePrefs(load_prefs_list, StripLines(<<rstmt>>), PREFS_LIMIT)
    /\ prefs_exists' = TRUE
    /\ rpc' = "twice"
    /\ UNCHANGED <<rstmt, rlimit, rfirst, credVars, PREFS_LIMIT, workerVars, keyVars>>
    /\ UNCHANGED laterVars

\* the worker runs are over; the next message starts afresh on the store
NextStatement ==
    /\ rpc = "twice"
    /\ rpc' = "start"
    /\ rstmt' = <<>>
    /\ rlimit' = 0
    /\ rfirst' = <<>>
    /\ rsecond' = <<>>
    /\ UNCHANGED <<storeVars, credVars, PREFS_LIMIT, workerVars, keyVars>>
    /\ UNCHANGED laterVars

NextTwice == MergeFirst \/ MergeSecond \/ NextStatement

SpecTwice == InitTwice /\ [][NextTwice]_vars

(***************************************************************************)
(* pref_key on statements: a statement is typed as words, then varied in   *)
(* the case of a letter before its first ' is ' or in the text after it    *)
(***************************************************************************)
Words == { <<"a">>, <<" ">>, <<"i", "s">>, <<"I", "s">> }

RECURSIVE Flatten(_)
Flatten(ws) == IF ws = <<>> THEN <<>> ELSE Head(ws) \o Flatten(Tail(ws))

Statements == {Strip(Flatten(ws)) : ws \in SeqsUpTo(Words, MaxKeyLen)} \ {<<>>}

Tails == { <<"a">>, <<"i", "s", " ", "a">>, <<"a", " ", "i", "s", " ", "a">>, <<"I", "s">> }

\* where ' is ' occurs in s, letter case ignored
SepAt(s) == {i \in 1..(Len(s) - 3) : Lower(SubSeq(s, i, i + 3)) = IsSep}
HasSep(s) == SepAt(s) # {}
BeforeSep(s) == SubSeq(s, 1, Min(SepAt(s)) - 1)

SwapCase(c) ==
    CASE c = "a" -> "A" [] c = "A" -> "a"
      [] c = "i" -> "I" [] c = "I" -> "i"
      [] c = "s" -> "S" [] c = "S" -> "s"
      [] OTHER -> c

InitKey ==
    /\ InitRunning /\ WorkerIdle /\ TwiceIdle /\ LaterIdle
    /\ prefs_exists = FALSE
    /\ settings = SettingsDefault
    /\ kpc = "typed"
    /\ stmt1 \in Statements
    /\ stmt2 = stmt1
    /\ key1 = <<>>
    /\ key2 = <<>>

ChangeCase ==
    /\ kpc = "typed"
    /\ HasSep(stmt2)
    /\ \E p \in 1..(Min(SepAt(stmt2)) - 1) :
         /\ SwapCase(stmt2[p]) # stmt2[p]
         /\ stmt2' = [stmt2 EXCEPT ![p] = SwapCase(@)]
    /\ UNCHANGED <<stmt1, key1, key2, kpc>>
    /\ UNCHANGED <<credVars, storeVars, PREFS_LIMIT, workerVars, twiceVars>>
    /\ UNCHANGED laterVars

ChangeTail ==
    /\ kpc = "typed"
    /\ HasSep(stmt2)
    /\ \E t \in Tails : stmt2' = SubSeq(stmt2, 1, Min(SepAt(stmt2)) + 3) \o t
    /\ UNCHANGED <<stmt1, key1, key2, kpc>>
    /\ UNCHANGED <<credVars, storeVars, PREFS_LIMIT, workerVars, twiceVars>>
    /\ UNCHANGED laterVars

\* k = pref_key(ln) at lines 1098 and 1107
ComputeKeys ==
    /\ kpc = "typed"
    /\ key1' = pref_key(stmt1)
    /\ key2' = pref_key(stmt2)
    /\ kpc' = "keyed"
    /\ UNCHANGED <<stmt1, stmt2>>
    /\ UNCHANGED <<credVars, storeVars, PREFS_LIMIT, workerVars, twiceVars>>
    /\ UNCHANGED laterVars

NextKey == ChangeCase \/ ChangeTail \/ ComputeKeys

SpecKey == InitKey /\ [][NextKey]_vars

(***************************************************************************)
(* Credentials: startup, the two prompts, the settings dialogs, the mode   *)
(* checkbox                                                                *)
(***************************************************************************)
KeyVals == {"sk-1"}
EpVals == {"http://host/chat"}

\* prompt_for_api_key, lines 585-691: the dialog that is up when it is called
prompt_for_api_key(data) ==
    IF get_saved_api_key(data) # "None" THEN "main" ELSE "prompt_key"

\* prompt_for_endpoint, lines 694-800
prompt_for_endpoint(data) ==
    IF get_saved_endpoint(data) # "None" THEN "main" ELSE "prompt_ep"

\* mutants of StartupPrompt: the marker names the prompt not to show; the
\* missing credential is prompted for in either mode; the mode's prompt is
\* opened without looking at what is saved
StartupPrompt_othermarker(data, use_local) ==
    IF get_saved_api_key(data) = "None" /\ get_saved_endpoint(data) = "None"
    THEN IF data.last_credential_deleted = "api_key" THEN prompt_for_endpoint(data)
         ELSE IF data.last_credential_deleted = "server_endpoint"
              THEN prompt_for_api_key(data)
              ELSE prompt_for_api_key(data)
    ELSE IF use_local
         THEN IF get_saved_api_key(data) = "None" THEN prompt_for_api_key(data) ELSE "main"
         ELSE IF get_saved_endpoint(data) = "None" THEN prompt_for_endpoint(data) ELSE "main"

StartupPrompt_anymode(data, use_local) ==
    IF get_saved_api_key(data) = "None" /\ get_saved_endpoint(data) = "None"
    THEN IF data.last_credential_deleted = "api_key" THEN prompt_for_api_key(data)
         ELSE IF data.last_credential_deleted = "server_endpoint"
              THEN prompt_for_endpoint(data)
              ELSE prompt_for_api_key(data)
    ELSE IF get_saved_api_key(data) = "None" THEN prompt_for_api_key(data)
         ELSE IF get_saved_endpoint(data) = "None" THEN prompt_for_endpoint(data)
         ELSE "main"

StartupPrompt_unguarded(data, use_local) ==
    IF get_saved_api_key(data) = "None" /\ get_saved_endpoint(data) = "None"
    THEN IF data.last_credential_deleted = "api_key" THEN prompt_for_api_key(data)
         ELSE IF data.last_credential_deleted = "server_endpoint"
              THEN prompt_for_endpoint(data)
              ELSE prompt_for_api_key(data)
    ELSE IF use_local THEN "prompt_key" ELSE "prompt_ep"

\* build_main_window, lines 276-313: the prompt shown at startup
StartupPrompt(data, use_local) ==
    IF get_saved_api_key(data) = "None" /\ get_saved_endpoint(data) = "None"
    THEN IF data.last_credential_deleted = "api_key" THEN prompt_for_api_key(data)
         ELSE IF data.last_credential_deleted = "server_endpoint"
              THEN prompt_for_endpoint(data)
              ELSE prompt_for_api_key(data)
    ELSE IF use_local
         THEN IF get_saved_api_key(data) = "None" THEN prompt_for_api_key(data) ELSE "main"
         ELSE IF get_saved_endpoint(data) = "None" THEN prompt_for_endpoint(data) ELSE "main"

Snapshot(kind, data, use_local, prompt) ==
    [kind |-> kind,
     key |-> get_saved_api_key(data),
     ep |-> get_saved_endpoint(data),
     marker |-> data.last_credential_deleted,
     local |-> use_local,
     prompt |-> prompt]

otherVars == <<storeVars, workerVars, keyVars, twiceVars, laterVars>>

\* what a mode change found and what it left: the dialog and checkbox before,
\* the checkbox, the persisted flag, the credentials and the dialog after
Op(kind, ui_before, var_before, data_before, var_after, data_after, prompt) ==
    [kind |-> kind, ui_before |-> ui_before, var_before |-> var_before,
     key_before |-> get_saved_api_key(data_before),
     ep_before |-> get_saved_endpoint(data_before),
     var |-> var_after, flag |-> data_after.use_local_ai,
     key |-> get_saved_api_key(data_after),
     ep |-> get_saved_endpoint(data_after),
     prompt |-> prompt]

\* a first run: no settings.json, no preferences.json, the program not started
InitCred ==
    /\ settings = SettingsDefault
    /\ ui = "off"
    /\ use_local_var = TRUE
    /\ PREFS_LIMIT = PREFS_DEFAULT_LINES
    /\ now = 0
    /\ shown = NoShown
    /\ last_op = NoOp
    /\ last_removed = "None"
    /\ prefs_exists = FALSE
    /\ prefs = <<>>
    /\ WorkerIdle /\ KeyIdle /\ TwiceIdle /\ LaterIdle

\* build_main_window, lines 61-353
Startup ==
    /\ ui = "off"
    /\ use_local_var' = settings.use_local_ai
    /\ PREFS_LIMIT' = StartupPrefsLimit(settings)
    /\ ui' = StartupPrompt(settings, settings.use_local_ai)
    /\ shown' = Snapshot("startup", settings, settings.use_local_ai,
                         StartupPrompt(settings, settings.use_local_ai))
    /\ UNCHANGED <<settings, now, last_op, last_removed, otherVars>>

\* prompt_for_api_key.on_save, lines 649-662
PromptKeySave ==
    /\ ui = "prompt_key"
    /\ \E val \in KeyVals :
         settings' = save_settings(settings, TRUE, val, "None", "None",
                                   NoInt, NoInt, "None", now)
    /\ ui' = "main"
    /\ UNCHANGED <<use_local_var, PREFS_LIMIT, now, shown, last_op, last_removed, otherVars>>

\* mutant of PromptKeySwitch: the checkbox is set, the flag is not persisted
PromptKeySwitch_nopersist ==
    /\ ui = "prompt_key"
    /\ settings' = settings
    /\ use_local_var' = FALSE
    /\ ui' = IF get_saved_endpoint(settings') = "None"
             THEN prompt_for_endpoint(settings') ELSE "main"
    /\ last_op' = Op("switch_to_server", ui, use_local_var, settings,
                     use_local_var', settings', ui')
    /\ UNCHANGED <<PREFS_LIMIT, now, shown, last_removed, otherVars>>

\* prompt_for_api_key.switch_to_server, lines 617-639
PromptKeySwitch ==
    /\ ui = "prompt_key"
    /\ settings' = save_settings(settings, FALSE, "None", "None", "None",
                                 NoInt, NoInt, "None", now)
    /\ use_local_var' = FALSE
    /\ ui' = IF get_saved_endpoint(settings') = "None"
             THEN prompt_for_endpoint(settings') ELSE "main"
    /\ last_op' = Op("switch_to_server", ui, use_local_var, settings,
                     use_local_var', settings', ui')
    /\ UNCHANGED <<PREFS_LIMIT, now, shown, last_removed, otherVars>>

\* prompt_for_endpoint.on_save, lines 753-769
PromptEpSave ==
    /\ ui = "prompt_ep"
    /\ \E val \in EpVals :
         settings' = save_settings(settings, FALSE, "None", val, "None",
                                   NoInt, NoInt, "None", now)
    /\ ui' = "main"
    /\ UNCHANGED <<use_local_var, PREFS_LIMIT, now, shown, last_op, last_removed, otherVars>>

\* prompt_for_endpoint.switch_to_local, lines 722-743
PromptEpSwitch ==
    /\ ui = "prompt_ep"
    /\ settings' = save_settings(settings, TRUE, "None", "None", "None",
                                 NoInt, NoInt, "None", now)
    /\ use_local_var' = TRUE
    /\ ui' = IF get_saved_api_key(settings') = "None"
             THEN prompt_for_api_key(settings') ELSE "main"
    /\ last_op' = Op("switch_to_local", ui, use_local_var, settings,
                     use_local_var', settings', ui')
    /\ UNCHANGED <<PREFS_LIMIT, now, shown, last_removed, otherVars>>

\* manage_api_key.save_new with a key, lines 2008-2012
ManageKeySave ==
    /\ ui = "main"
    /\ \E val \in KeyVals :
         settings' = save_settings(settings, use_local_var, val, "None", "None",
                                   NoInt, NoInt, "None", now)
    /\ UNCHANGED <<ui, use_local_var, PREFS_LIMIT, now, shown, last_op, last_removed, otherVars>>

\* manage_api_key.save_new(None), lines 1986-2007: the removal is confirmed
ManageKeyRemove ==
    /\ ui = "main"
    /\ settings' = save_settings(settings, use_local_var, "", "None", "api_key",
                                 NoInt, NoInt, "None", now)
    /\ use_local_var' = FALSE
    /\ ui' = IF get_saved_api_key(settings') = "None"
                /\ get_saved_endpoint(settings') = "None"
             THEN prompt_for_api_key(settings') ELSE "main"
    /\ shown' = Snapshot("remove_key", settings', settings'.use_local_ai, ui')
    /\ last_removed' = "api_key"
    /\ UNCHANGED <<PREFS_LIMIT, now, last_op, otherVars>>

\* manage_endpoint.save_new with an endpoint, lines 2094-2098
ManageEpSave ==
    /\ ui = "main"
    /\ \E val \in EpVals :
         settings' = save_settings(settings, use_local_var, "None", val, "None",
                                   NoInt, NoInt, "None", now)
    /\ UNCHANGED <<ui, use_local_var, PREFS_LIMIT, now, shown, last_op, last_removed, otherVars>>

\* manage_endpoint.save_new(None), lines 2072-2093
ManageEpRemove ==
    /\ ui = "main"
    /\ settings' = save_settings(settings, use_local_var, "None", "", "server_endpoint",
                                 NoInt, NoInt, "None", now)
    /\ use_local_var' = TRUE
    /\ ui' = IF get_saved_api_key(settings') = "None"
                /\ get_saved_endpoint(settings') = "None"
             THEN prompt_for_endpoint(settings') ELSE "main"
    /\ shown' = Snapshot("remove_ep", settings', settings'.use_local_ai, ui')
    /\ last_removed' = "server_endpoint"
    /\ UNCHANGED <<PREFS_LIMIT, now, last_op, otherVars>>

\* mutants of TogglePrompt: the prompt is chosen by the mode left behind; the
\* prompt is opened without looking at what is saved
TogglePrompt_oldmode(data, val) ==
    IF ~val /\ get_saved_api_key(data) = "None" THEN prompt_for_api_key(data)
    ELSE IF val /\ get_saved_endpoint(data) = "None" THEN prompt_for_endpoint(data)
         ELSE "main"

TogglePrompt_unguarded(data, val) == IF val THEN "prompt_key" ELSE "prompt_ep"

\* toggle_use_local, lines 2153-2165: the dialog up after the flag is saved
TogglePrompt(data, val) ==
    IF val /\ get_saved_api_key(data) = "None" THEN prompt_for_api_key(data)
    ELSE IF ~val /\ get_saved_endpoint(data) = "None" THEN prompt_for_endpoint(data)
         ELSE "main"

\* the mode checkbox flips use_local_var, then toggle_use_local, lines 2148-2167
ToggleUseLocal ==
    /\ ui = "main"
    /\ use_local_var' = ~use_local_var
    /\ settings' = save_settings(settings, ~use_local_var, "None", "None", "None",
                                 NoInt, NoInt, "None", now)
    /\ ui' = TogglePrompt(settings', ~use_local_var)
    /\ last_op' = Op("toggle", ui, use_local_var, settings,
                     use_local_var', settings', ui')
    /\ UNCHANGED <<PREFS_LIMIT, now, shown, last_removed, otherVars>>

\* on_exit, lines 2388-2412, with nothing unsaved: the window is destroyed
Exit ==
    /\ ui = "main"
    /\ ui' = "off"
    /\ use_local_var' = TRUE
    /\ PREFS_LIMIT' = PREFS_DEFAULT_LINES
    /\ UNCHANGED <<settings, now, shown, last_op, last_removed, otherVars>>

\* the process is ended from outside while a prompt that cannot be closed is up
Kill ==
    /\ ui \in {"prompt_key", "prompt_ep"}
    /\ ui' = "off"
    /\ use_local_var' = TRUE
    /\ PREFS_LIMIT' = PREFS_DEFAULT_LINES
    /\ UNCHANGED <<settings, now, shown, last_op, last_removed, otherVars>>

\* time.time() advances
Tick ==
    /\ now < MaxClock
    /\ now' = now + 1
    /\ UNCHANGED <<settings, ui, use_local_var, PREFS_LIMIT, shown, last_op, last_removed, otherVars>>

NextCred ==
    \/ Startup
    \/ PromptKeySave
    \/ PromptKeySwitch
    \/ PromptEpSave
    \/ PromptEpSwitch
    \/ ManageKeySave
    \/ ManageKeyRemove
    \/ ManageEpSave
    \/ ManageEpRemove
    \/ ToggleUseLocal
    \/ Exit
    \/ Kill
    \/ Tick

SpecCred == InitCred /\ [][NextCred]_vars

(***************************************************************************)
(* save_settings called for itself, lines 2240-2301, on every settings     *)
(* record earlier calls can have left.  Each call site (621, 655, 725,     *)
(* 759, 1308, 1483, 1566, 1990, 2009, 2076, 2095, 2152) passes the flag    *)
(* and at most two of the six optional arguments.                          *)
(***************************************************************************)
ModelVals == {"gpt-x"}
LinesVals == {5}

\* the optional arguments a call was given
Given(a) ==
    {f \in {"api_key", "endpoint", "last_deleted", "ai_model"} : a[f] # "None"}
      \cup {f \in {"ai_history_lines", "pref_memory_lines"} : a[f] # NoInt}

SsArgs ==
    {a \in [use_local : BOOLEAN,
            api_key : {"None", ""} \cup KeyVals,
            endpoint : {"None", ""} \cup EpVals,
            last_deleted : {"None", "", "api_key"},
            ai_history_lines : {NoInt} \cup LinesVals,
            pref_memory_lines : {NoInt} \cup LinesVals,
            ai_model : {"None"} \cup ModelVals] : Cardinality(Given(a)) <= 2}

\* the main window is up (build_main_window, lines 61-353), nothing saved yet
InitSettings ==
    /\ settings = SettingsDefault
    /\ ui = "main"
    /\ use_local_var = TRUE
    /\ PREFS_LIMIT = PREFS_DEFAULT_LINES
    /\ now = 0
    /\ shown = NoShown
    /\ last_op = NoOp
    /\ last_removed = "None"
    /\ prefs_exists = FALSE
    /\ prefs = <<>>
    /\ WorkerIdle /\ KeyIdle /\ TwiceIdle /\ LaterIdle

\* one call of save_settings; ss_call keeps its arguments
SaveSettingsCall ==
    /\ \E a \in SsArgs :
         /\ settings' = save_settings(settings, a.use_local, a.api_key, a.endpoint,
                                      a.last_deleted, a.ai_history_lines,
                                      a.pref_memory_lines, a.ai_model, now)
         /\ ss_call' = [made |-> TRUE, args |-> a]
    /\ UNCHANGED <<prefs_exists, prefs, ui, use_local_var, PREFS_LIMIT, now, workerVars,
                   shown, last_op, last_removed, keyVars, twiceVars, logVars, ctlVars,
                   reqVars, convVars, presetVars>>

NextSettings ==
    \/ SaveSettingsCall
    \/ Tick

SpecSettings == InitSettings /\ [][NextSettings]_vars

(***************************************************************************)
(* JSON text: json.dump(..., ensure_ascii=False, indent=2) writes it and   *)
(* json.load parses it                                                     *)
(***************************************************************************)
NL == "\n"
Quote == "\""
Backslash == "\\"

\* json.dumps of one character of a string (ensure_ascii=False)
EscChar(c) ==
    CASE c = Quote -> <<Backslash, Quote>>
      [] c = Backslash -> <<Backslash, Backslash>>
      [] c = NL -> <<Backslash, "n">>
      [] OTHER -> <<c>>

RECURSIVE EscText(_)
EscText(t) == IF t = <<>> THEN <<>> ELSE EscChar(Head(t)) \o EscText(Tail(t))

\* json.dumps of a string
EncStr(t) == <<Quote>> \o EscText(t) \o <<Quote>>

Indent(n) == [i \in 1..n |-> " "]

\* the elements of a list at one indentation, separated by ",\n"
RECURSIVE JoinLines(_)
JoinLines(parts) ==
    IF parts = <<>> THEN <<>>
    ELSE IF Len(parts) = 1 THEN Head(parts)
         ELSE Head(parts) \o <<",", NL>> \o JoinLines(Tail(parts))

\* json.dumps(item, indent=2) of a list of strings nested at depth 1
EncItem(item) ==
    IF item = <<>> THEN Indent(2) \o <<"[", "]">>
    ELSE Indent(2) \o <<"[", NL>>
           \o JoinLines([i \in 1..Len(item) |-> Indent(4) \o EncStr(item[i])])
           \o <<NL>> \o Indent(2) \o <<"]">>

\* json.dumps(serial, indent=2) of a list of lists of strings
EncList(serial) ==
    IF serial = <<>> THEN <<"[", "]">>
    ELSE <<"[", NL>> \o JoinLines([i \in 1..Len(serial) |-> EncItem(serial[i])])
           \o <<NL, "]">>

\* json.load: white space between tokens is skipped
RECURSIVE SkipWs(_)
SkipWs(s) == IF s # <<>> /\ Head(s) \in {" ", NL} THEN SkipWs(Tail(s)) ELSE s

Failed == [ok |-> FALSE, val |-> <<>>, rest |-> <<>>]

\* the characters of a string up to its closing quote, escapes undone
RECURSIVE ParseStrBody(_, _)
ParseStrBody(s, acc) ==
    IF s = <<>> THEN Failed
    ELSE IF Head(s) = Quote THEN [ok |-> TRUE, val |-> acc, rest |-> Tail(s)]
    ELSE IF Head(s) = Backslash
         THEN IF Len(s) < 2 THEN Failed
              ELSE IF s[2] = "n" THEN ParseStrBody(SubSeq(s, 3, Len(s)), Append(acc, NL))
              ELSE IF s[2] \in {Quote, Backslash}
                   THEN ParseStrBody(SubSeq(s, 3, Len(s)), Append(acc, s[2]))
                   ELSE Failed
    ELSE IF Head(s) = NL THEN Failed
    ELSE ParseStrBody(Tail(s), Append(acc, Head(s)))

\* a JSON value: a string (a sequence of characters) or an array of values;
\* ParseList reads the elements of an array after its opening bracket
RECURSIVE ParseValue(_)
RECURSIVE ParseList(_, _)
ParseValue(text) ==
    LET s == SkipWs(text) IN
    IF s = <<>> THEN Failed
    ELSE IF Head(s) = Quote THEN ParseStrBody(Tail(s), <<>>)
    ELSE IF Head(s) = "[" THEN
           IF SkipWs(Tail(s)) # <<>> /\ Head(SkipWs(Tail(s))) = "]"
           THEN [ok |-> TRUE, val |-> <<>>, rest |-> Tail(SkipWs(Tail(s)))]
           ELSE ParseList(Tail(s), <<>>)
    ELSE Failed

ParseList(text, acc) ==
    LET v == ParseValue(text)
        after == SkipWs(v.rest)
    IN IF ~v.ok \/ after = <<>> THEN Failed
       ELSE IF Head(after) = "," THEN ParseList(Tail(after), Append(acc, v.val))
       ELSE IF Head(after) = "]"
            THEN [ok |-> TRUE, val |-> Append(acc, v.val), rest |-> Tail(after)]
            ELSE Failed

\* json.load(f): the whole text is one value
JsonLoad(text) ==
    LET v == ParseValue(text) IN
    IF v.ok /\ SkipWs(v.rest) = <<>> THEN v ELSE Failed

(***************************************************************************)
(* Sending a message: send_message, its worker thread, its timeout         *)
(* callback and the callbacks the worker queues for the UI thread.  The    *)
(* UI thread runs one callback at a time; a worker thread runs beside it   *)
(* and beside the workers of earlier messages.                             *)
(***************************************************************************)
You == <<"Y", "o", "u">>
\* determine_active_preset_name(), lines 551-582: the name of the active
\* preset, 'Default AI' with the sliders as created, written AI here
preset_label == <<"A", "I">>

\* what the user types, what the chat call returns, str(e) of a failed call
MsgPool == { <<"h", "i">> }
ReplyPool == { <<"o", "k">> }
ExcPool == { <<"x">> }
\* the extraction reply: nothing, or one line
SendReplies == { <<>>, << <<"b">> >> }

\* time.strftime('%Y-%m-%d %H:%M:%S') at clock value t
TsText(t) == <<"t", CASE t = 0 -> "0" [] t = 1 -> "1" [] t = 2 -> "2" [] OTHER -> "3">>

\* line 1227: f"Error: {str(e)}"
ErrText(e) == <<"E", "r", "r", "o", "r", ":", " ">> \o e

\* lines 980-984: the timeout message of the mode
TimeoutMsg(is_local) ==
    <<"t", "i", "m", "e", "d", " ", "o", "u", "t", ":", " ">>
      \o (IF is_local THEN <<"k", "e", "y">> ELSE <<"e", "n", "d", "p", "o", "i", "n", "t">>)

\* mutant of TrimHistory: one entry is dropped, not as many as needed
TrimHistory_once(h, lim) == IF Len(h) > lim THEN Tail(h) ELSE h

\* _trim_history, lines 2203-2211
RECURSIVE TrimHistory(_, _)
TrimHistory(h, lim) == IF Len(h) > lim THEN TrimHistory(Tail(h), lim) ELSE h

Tag(r, kind) == [req |-> r, kind |-> kind]

\* root.after_cancel(timeout_id)
Cancel(t) == IF t = "scheduled" THEN "cancelled" ELSE t

sendOther == <<credVars, PREFS_LIMIT, workerVars, keyVars, twiceVars, callVars, HISTORY_LIMIT,
               conv_file, saved_log, presetVars>>

\* a message of the payload
Msg(role, content) == [role |-> role, content |-> content]

\* line 830: the first system message names the preset
SystemIntro == <<"n", "a", "m", "e", ":", " ">> \o preset_label

\* build_personality_instructions(), lines 834-911, with the sliders as
\* created: eight sentences, never empty
personality_instruction == <<"B", "e", " ", "f", "r", "i", "e", "n", "d", "l", "y", ".">>

\* lines 920-924: one message per entry of the short-term history
RECURSIVE HistoryMessages(_)
HistoryMessages(h) ==
    IF h = <<>> THEN <<>>
    ELSE (IF Len(Head(h)) >= 2
          THEN << Msg(IF Head(h)[1] = You THEN "user" ELSE "assistant", Head(h)[2]) >>
          ELSE <<>>)
         \o HistoryMessages(Tail(h))

\* mutant of BuildPayload: the message is appended whatever the history gave
BuildPayload_always(h, message) ==
    << Msg("system", SystemIntro), Msg("system", personality_instruction) >>
      \o HistoryMessages(h) \o << Msg("user", message) >>

\* lines 829-937: messages_for_gpt for a history already holding the message
\* (unless trimmed away)
BuildPayload(h, message) ==
    LET base == << Msg("system", SystemIntro), Msg("system", personality_instruction) >>
                  \o HistoryMessages(h)
    IN IF \E i \in 1..Len(base) : base[i].role = "user" /\ base[i].content = message
       THEN base
       ELSE Append(base, Msg("user", message))

\* save_prefs_list, lines 2192-2198: the text of preferences.json, a JSON
\* list of objects (the ts field is left out, entries being their lines)
PrefsItem(line) ==
    Indent(2) \o <<"{", NL>> \o Indent(4)
      \o <<Quote, "l", "i", "n", "e", Quote, ":", " ">> \o EncStr(line)
      \o <<NL>> \o Indent(2) \o <<"}">>

PrefsText(lst) ==
    IF lst = <<>> THEN <<"[", "]">>
    ELSE <<"[", NL>> \o JoinLines([i \in 1..Len(lst) |-> PrefsItem(lst[i])]) \o <<NL, "]">>

\* mutant of InsertPrefs: the preferences are appended at the end
InsertPrefs_append(p, exists, lst) ==
    IF exists /\ Strip(PrefsText(lst)) # <<>>
    THEN Append(p, Msg("system", Strip(PrefsText(lst))))
    ELSE p

\* worker, lines 1139-1169: the text of preferences.json is inserted as a
\* system message at the first index whose role is not 'system'
InsertPrefs(p, exists, lst) ==
    IF exists /\ Strip(PrefsText(lst)) # <<>>
    THEN LET nonsys == {i \in 1..Len(p) : p[i].role # "system"}
             insert_idx == IF nonsys = {} THEN Len(p) + 1 ELSE Min(nonsys)
         IN SubSeq(p, 1, insert_idx - 1)
              \o << Msg("system", Strip(PrefsText(lst))) >>
              \o SubSeq(p, insert_idx, Len(p))
    ELSE p

\* send_message, lines 805-1017 and 1270-1272: the message typed in the entry
\* field is sent (the field takes no text while it is disabled)
send_message ==
    /\ ui = "main"
    /\ entry = "normal"
    /\ sent < MaxReq
    /\ \E message \in MsgPool :
         LET e == <<You, message, TsText(now)>> IN
           /\ history' = TrimHistory(Append(history, e), HISTORY_LIMIT)
           /\ full_history' = Append(full_history, e)
           /\ payload' = [payload EXCEPT ![sent + 1] =
                            BuildPayload(TrimHistory(Append(history, e), HISTORY_LIMIT),
                                         message)]
    /\ log_req' = Append(log_req, Tag(sent + 1, "You"))
    /\ send_btn' = "disabled"
    /\ entry' = "disabled"
    /\ unsaved_changes' = TRUE
    /\ cpc' = "edit"
    /\ response_received' = [response_received EXCEPT ![sent + 1] = FALSE]
    /\ timeout_id' = [timeout_id EXCEPT ![sent + 1] = "scheduled"]
    /\ wstate' = [wstate EXCEPT ![sent + 1] = "prefs"]
    /\ sent' = sent + 1
    /\ UNCHANGED <<wentry, wnew, wexisting, after0, chat_calls, storeVars, sendOther>>

\* mutant of timeout_callback: the timeout message is appended and the
\* controls stay as they are
timeout_callback_noenable(r) ==
    /\ timeout_id[r] = "scheduled"
    /\ \A q \in 1..(r - 1) : timeout_id[q] # "scheduled"
    /\ timeout_id' = [timeout_id EXCEPT ![r] = "fired"]
    /\ IF ~response_received[r]
       THEN LET e == <<preset_label, TimeoutMsg(use_local_var), TsText(now)>> IN
              /\ history' = TrimHistory(Append(history, e), HISTORY_LIMIT)
              /\ full_history' = Append(full_history, e)
              /\ log_req' = Append(log_req, Tag(r, "timeout"))
       ELSE UNCHANGED <<history, full_history, log_req>>
    /\ UNCHANGED <<payload, wentry, sent, wstate, wnew, wexisting, response_received, after0,
                   chat_calls, unsaved_changes, ctlVars, storeVars, cpc, sendOther>>

\* timeout_callback, lines 976-1014, run by the UI thread when the timer of
\* request r is due (timers come due in the order they were set)
timeout_callback(r) ==
    /\ timeout_id[r] = "scheduled"
    /\ \A q \in 1..(r - 1) : timeout_id[q] # "scheduled"
    /\ timeout_id' = [timeout_id EXCEPT ![r] = "fired"]
    /\ IF ~response_received[r]
       THEN LET e == <<preset_label, TimeoutMsg(use_local_var), TsText(now)>> IN
              /\ history' = TrimHistory(Append(history, e), HISTORY_LIMIT)
              /\ full_history' = Append(full_history, e)
              /\ log_req' = Append(log_req, Tag(r, "timeout"))
              /\ send_btn' = "normal"
              /\ entry' = "normal"
       ELSE UNCHANGED <<history, full_history, log_req, send_btn, entry>>
    /\ UNCHANGED <<payload, wentry, sent, wstate, wnew, wexisting, response_received, after0,
                   chat_calls, unsaved_changes, storeVars, cpc, sendOther>>

\* mutant of WorkerExtract: without extracted text the worker gives up, as
\* after a failed chat call
WorkerExtract_giveup(r) ==
    /\ wstate[r] = "prefs"
    /\ \E raw \in SendReplies :
         IF StripLines(raw) = <<>>
         THEN /\ wstate' = [wstate EXCEPT ![r] = "raised"]
              /\ UNCHANGED <<wnew, wexisting>>
         ELSE /\ wstate' = [wstate EXCEPT ![r] = "merge"]
              /\ wnew' = [wnew EXCEPT ![r] = StripLines(raw)]
              /\ wexisting' = [wexisting EXCEPT ![r] = load_prefs_list]
    /\ UNCHANGED <<payload, wentry, sent, response_received, timeout_id, after0, chat_calls, log_req,
                   history, full_history, ctlVars, unsaved_changes, storeVars, cpc, sendOther>>

\* worker, lines 1020-1083: the extraction call returns (no text stands for a
\* failed call too); with text, the stored list is loaded
WorkerExtract(r) ==
    /\ wstate[r] = "prefs"
    /\ \E raw \in SendReplies :
         IF StripLines(raw) = <<>>
         THEN /\ wstate' = [wstate EXCEPT ![r] = "chat"]
              /\ UNCHANGED <<wnew, wexisting>>
         ELSE /\ wstate' = [wstate EXCEPT ![r] = "merge"]
              /\ wnew' = [wnew EXCEPT ![r] = StripLines(raw)]
              /\ wexisting' = [wexisting EXCEPT ![r] = load_prefs_list]
    /\ UNCHANGED <<payload, wentry, sent, response_received, timeout_id, after0, chat_calls, log_req,
                   history, full_history, ctlVars, unsaved_changes, storeVars, cpc, sendOther>>

\* worker, lines 1085-1134: merge, enforce the limit, save_prefs_list(final)
WorkerMerge(r) ==
    /\ wstate[r] = "merge"
    /\ prefs' = MergePrefs(wexisting[r], wnew[r], PREFS_LIMIT)
    /\ prefs_exists' = TRUE
    /\ wstate' = [wstate EXCEPT ![r] = "chat"]
    /\ UNCHANGED <<payload, wentry, sent, wnew, wexisting, response_received, timeout_id, after0,
                   chat_calls, log_req, history, full_history, ctlVars,
                   unsaved_changes, cpc, sendOther>>

\* worker, lines 1171-1224: the chat call returns; the reply is appended and
\* on_success is queued for the UI thread
ChatReturns(r) ==
    /\ wstate[r] = "chat"
    /\ payload' = [payload EXCEPT ![r] = InsertPrefs(@, prefs_exists, prefs)]
    /\ chat_calls' = [chat_calls EXCEPT ![r] = @ + 1]
    /\ \E ai_reply \in ReplyPool :
         LET e == <<preset_label, ai_reply, TsText(now)>> IN
           /\ history' = TrimHistory(Append(history, e), HISTORY_LIMIT)
           /\ full_history' = Append(full_history, e)
    /\ log_req' = Append(log_req, Tag(r, "reply"))
    /\ after0' = Append(after0, [req |-> r, cb |-> "on_success"])
    /\ wstate' = [wstate EXCEPT ![r] = "replied"]
    /\ UNCHANGED <<wentry, sent, wnew, wexisting, response_received, timeout_id, ctlVars,
                   unsaved_changes, storeVars, cpc, sendOther>>

\* mutant of ChatRaises: a failed chat call is tried once more before the
\* error is surfaced
ChatRaises_retry(r) ==
    /\ wstate[r] = "chat"
    /\ payload' = [payload EXCEPT ![r] = InsertPrefs(@, prefs_exists, prefs)]
    /\ chat_calls' = [chat_calls EXCEPT ![r] = @ + 1]
    /\ IF chat_calls[r] = 0
       THEN UNCHANGED <<history, full_history, log_req, wstate>>
       ELSE /\ \E exc \in ExcPool :
                 LET e == <<preset_label, ErrText(exc), TsText(now)>> IN
                   /\ history' = TrimHistory(Append(history, e), HISTORY_LIMIT)
                   /\ full_history' = Append(full_history, e)
            /\ log_req' = Append(log_req, Tag(r, "error"))
            /\ wstate' = [wstate EXCEPT ![r] = "raised"]
    /\ UNCHANGED <<wentry, sent, wnew, wexisting, response_received, timeout_id, after0,
                   ctlVars, unsaved_changes, storeVars, cpc, sendOther>>

\* worker, lines 1171-1182 and 1226-1240: the chat call raises; the error
\* entry is appended
ChatRaises(r) ==
    /\ wstate[r] = "chat"
    /\ payload' = [payload EXCEPT ![r] = InsertPrefs(@, prefs_exists, prefs)]
    /\ chat_calls' = [chat_calls EXCEPT ![r] = @ + 1]
    /\ \E exc \in ExcPool :
         LET e == <<preset_label, ErrText(exc), TsText(now)>> IN
           /\ history' = TrimHistory(TrimHistory(Append(history, e), HISTORY_LIMIT),
                                     HISTORY_LIMIT)
           /\ full_history' = Append(full_history, e)
    /\ log_req' = Append(log_req, Tag(r, "error"))
    /\ wstate' = [wstate EXCEPT ![r] = "raised"]
    /\ UNCHANGED <<wentry, sent, wnew, wexisting, response_received, timeout_id, after0,
                   ctlVars, unsaved_changes, storeVars, cpc, sendOther>>

\* worker, lines 1242-1267: the flag is set, the timer cancelled, on_error
\* queued for the UI thread
WorkerMarkReceived(r) ==
    /\ wstate[r] = "raised"
    /\ response_received' = [response_received EXCEPT ![r] = TRUE]
    /\ timeout_id' = [timeout_id EXCEPT ![r] = Cancel(@)]
    /\ after0' = Append(after0, [req |-> r, cb |-> "on_error"])
    /\ wstate' = [wstate EXCEPT ![r] = "failed"]
    /\ UNCHANGED <<payload, wentry, sent, wnew, wexisting, chat_calls, log_req, history, full_history,
                   ctlVars, unsaved_changes, storeVars, cpc, sendOther>>

\* on_success, lines 1195-1222, run by the UI thread
on_success ==
    /\ after0 # <<>>
    /\ Head(after0).cb = "on_success"
    /\ response_received' = [response_received EXCEPT ![Head(after0).req] = TRUE]
    /\ timeout_id' = [timeout_id EXCEPT ![Head(after0).req] = Cancel(@)]
    /\ send_btn' = "normal"
    /\ entry' = "normal"
    /\ after0' = Tail(after0)
    /\ UNCHANGED <<payload, wentry, sent, wstate, wnew, wexisting, chat_calls, log_req, history,
                   full_history, unsaved_changes, storeVars, cpc, sendOther>>

\* on_error, lines 1250-1265, run by the UI thread
on_error ==
    /\ after0 # <<>>
    /\ Head(after0).cb = "on_error"
    /\ send_btn' = "normal"
    /\ entry' = "normal"
    /\ after0' = Tail(after0)
    /\ UNCHANGED <<payload, wentry, sent, wstate, wnew, wexisting, response_received, timeout_id,
                   chat_calls, log_req, history, full_history, unsaved_changes,
                   storeVars, cpc, sendOther>>

\* the main window is up, settings.json as on a first run; preferences.json
\* holds one line
InitSend ==
    /\ settings = SettingsDefault
    /\ PREFS_LIMIT = StartupPrefsLimit(settings)
    /\ use_local_var = settings.use_local_ai
    /\ ui = "main"
    /\ now = 0
    /\ shown = NoShown
    /\ last_op = NoOp
    /\ last_removed = "None"
    /\ prefs_exists = TRUE
    /\ prefs = << <<"a", " ", "i", "s", " ", "x">> >>
    /\ WorkerIdle /\ KeyIdle /\ TwiceIdle /\ LaterIdle

NextSend ==
    \/ send_message
    \/ \E r \in Reqs : timeout_callback(r)
    \/ \E r \in Reqs : WorkerExtract(r)
    \/ \E r \in Reqs : WorkerMerge(r)
    \/ \E r \in Reqs : ChatReturns(r)
    \/ \E r \in Reqs : ChatRaises(r)
    \/ \E r \in Reqs : WorkerMarkReceived(r)
    \/ on_success
    \/ on_error

SpecSend == InitSend /\ [][NextSend]_vars

\* the payload under each history limit: the main window is up with the
\* limit read from settings.json (lines 180-191), preferences.json absent or
\* holding one line; every reply or failure arrives before the timer is due
InitPay ==
    /\ \E lim \in Limits \cup {NoInt} :
         settings = [SettingsDefault EXCEPT !.ai_history_lines = lim]
    /\ HISTORY_LIMIT = StartupHistoryLimit(settings)
    /\ PREFS_LIMIT = StartupPrefsLimit(settings)
    /\ use_local_var = settings.use_local_ai
    /\ ui = "main"
    /\ now = 0
    /\ shown = NoShown
    /\ last_op = NoOp
    /\ last_removed = "None"
    /\ prefs_exists \in BOOLEAN
    /\ prefs = IF prefs_exists THEN << <<"a", " ", "i", "s", " ", "x">> >> ELSE <<>>
    /\ history = <<>> /\ full_history = <<>>
    /\ WorkerIdle /\ KeyIdle /\ TwiceIdle /\ CallIdle
    /\ CtlIdle /\ ReqIdle /\ ConvIdle /\ PresetIdle

NextPay ==
    \/ send_message
    \/ \E r \in Reqs : WorkerExtract(r)
    \/ \E r \in Reqs : WorkerMerge(r)
    \/ \E r \in Reqs : ChatReturns(r)
    \/ \E r \in Reqs : ChatRaises(r)
    \/ \E r \in Reqs : WorkerMarkReceived(r)
    \/ on_success
    \/ on_error

SpecPay == InitPay /\ [][NextPay]_vars

\* the Tk main loop: the next callback it holds, a timer that is due
\* (root.after(20000, ...)) or the head of the root.after(0, ...) queue
MainLoop ==
    \/ \E r \in Reqs : timeout_callback(r)
    \/ on_success
    \/ on_error

\* the main loop keeps running while it holds a callback; nothing makes a
\* worker thread move on
SpecSendLive == SpecSend /\ WF_vars(MainLoop)

(***************************************************************************)
(* The preset applied at startup, lines 205-272                            *)
(***************************************************************************)
\* DEFAULT_PRESETS, lines 46-54
DEFAULT_PRESETS ==
    [n \in {"Default AI", "Helpful Professional", "Casual Friendly", "Playful Sarcastic",
            "Child-Friendly", "Stoic Professional", "Sailor-Mouth"} |->
       CASE n = "Default AI" -> <<2, 1, 0, 30, 1, 0, 0, 1>>
         [] n = "Helpful Professional" -> <<2, 2, 0, 35, 1, 0, 0, 1>>
         [] n = "Casual Friendly" -> <<3, 0, 0, 25, 1, 1, 0, 1>>
         [] n = "Playful Sarcastic" -> <<2, 0, 1, 18, 1, 2, 2, 1>>
         [] n = "Child-Friendly" -> <<3, 1, 0, 12, 1, 0, 0, 2>>
         [] n = "Stoic Professional" -> <<1, 2, 0, 40, 1, 0, 0, 0>>
         [] OTHER -> <<0, 0, 2, 30, 1, 1, 2, 0>>]

\* the smallest and the largest setting of the slider at position i of a
\* preset (friendliness 0-3, age 5-127, the others 0-2)
SliderLo(i) == IF i = 4 THEN 5 ELSE 0
SliderHi(i) == CASE i = 1 -> 3 [] i = 4 -> 127 [] OTHER -> 2

\* the lists of 7..MaxPresetLen integers a preset file may hold
PresetLists ==
    UNION { {[i \in 1..n |-> IF i \in S THEN SliderHi(i) ELSE SliderLo(i)] : S \in SUBSET (1..n)} :
            n \in 7..MaxPresetLen }

\* json.load of personalities/<name>.json: a bare list, an object with a
\* values list, an object without one
PresetFiles ==
    {[form |-> f, values |-> v] : f \in {"list", "dict"}, v \in PresetLists}
      \cup {[form |-> "dict_no_values", values |-> <<>>]}

\* lines 238-243: vals of a loaded preset file, <<>> for None
PresetVals(loaded) == IF loaded.form \in {"list", "dict"} THEN loaded.values ELSE <<>>

\* lines 246-254: the eight set() calls of the file branch, in order;
\* friendliness_var is set a second time from vals[4], gender_var is not set
ApplyFilePreset(sl, vals) ==
    [sl EXCEPT !.friendliness = vals[5], !.professionalism = vals[2],
               !.profanity = vals[3], !.age = vals[4], !.humor = vals[6],
               !.sarcasm = vals[7], !.introversion = vals[8]]

\* lines 222-230: the built-in branch
ApplyBuiltinPreset(sl, vals) ==
    [friendliness |-> vals[1], professionalism |-> vals[2], profanity |-> vals[3],
     age |-> vals[4], gender |-> vals[5], humor |-> vals[6], sarcasm |-> vals[7],
     introversion |-> vals[8]]

\* lines 258-267: the fallback to 'Default AI'; professionalism_var is set a
\* second time from vals[2], profanity_var is not set
ApplyFallbackPreset(sl) ==
    LET vals == DEFAULT_PRESETS["Default AI"] IN
    [sl EXCEPT !.friendliness = vals[1], !.professionalism = vals[3],
               !.age = vals[4], !.gender = vals[5], !.humor = vals[6],
               !.sarcasm = vals[7], !.introversion = vals[8]]

\* presets.json and the personalities directory before the program starts
InitPreset ==
    /\ InitRunning /\ WorkerIdle /\ KeyIdle /\ TwiceIdle /\ CallIdle
    /\ settings = SettingsDefault
    /\ prefs_exists = FALSE
    /\ LogIdle /\ CtlIdle /\ ReqIdle /\ ConvIdle
    /\ last_selected \in {"None", "Custom", "mine"} \cup DOMAIN DEFAULT_PRESETS
    /\ preset_file \in IF last_selected = "mine" THEN PresetFiles ELSE {NoFile}
    /\ sliders = SliderDefaults
    /\ ppc = "start"

presetOther == <<credVars, storeVars, PREFS_LIMIT, workerVars, keyVars, twiceVars, callVars,
                 logVars, ctlVars, reqVars, convVars, last_selected, preset_file>>

\* lines 219-231: last_selected names a built-in preset
StartupBuiltinPreset ==
    /\ ppc = "start"
    /\ last_selected \in DOMAIN DEFAULT_PRESETS
    /\ sliders' = ApplyBuiltinPreset(sliders, DEFAULT_PRESETS[last_selected])
    /\ ppc' = "builtin"
    /\ UNCHANGED presetOther

\* lines 232-255: last_selected names a file of personalities/ with a list of
\* at least 8 values, of which the first 8 are used
StartupFilePreset ==
    /\ ppc = "start"
    /\ last_selected # "None" /\ last_selected \notin DOMAIN DEFAULT_PRESETS
    /\ preset_file # NoFile
    /\ Len(PresetVals(preset_file)) >= 8
    /\ sliders' = ApplyFilePreset(sliders, SubSeq(PresetVals(preset_file), 1, 8))
    /\ ppc' = "file"
    /\ UNCHANGED presetOther

\* lines 257-267: no file of that name, or no list of 8 values in it
StartupFallbackPreset ==
    /\ ppc = "start"
    /\ last_selected # "None" /\ last_selected \notin DOMAIN DEFAULT_PRESETS
    /\ preset_file = NoFile \/ Len(PresetVals(preset_file)) < 8
    /\ sliders' = ApplyFallbackPreset(sliders)
    /\ ppc' = "fallback"
    /\ UNCHANGED presetOther

\* line 219: presets.json is missing or names no preset
StartupNoPreset ==
    /\ ppc = "start"
    /\ last_selected = "None"
    /\ ppc' = "none"
    /\ UNCHANGED <<sliders, presetOther>>

NextPreset ==
    \/ StartupBuiltinPreset
    \/ StartupFilePreset
    \/ StartupFallbackPreset
    \/ StartupNoPreset

SpecPreset == InitPreset /\ [][NextPreset]_vars

(***************************************************************************)
(* Saving and loading a conversation, lines 1343-1436.  The file is JSON   *)
(* text: json.dump(serial, f, ensure_ascii=False, indent=2) writes it and  *)
(* json.load(f) parses it.                                                 *)
(***************************************************************************)
\* lines 1371-1376: serial.append(list(item)) for each entry
Serial(log) == [i \in 1..Len(log) |-> log[i]]

\* lines 1416-1424: the entries of the loaded list with at least 2 elements;
\* a missing timestamp becomes the time of loading
RECURSIVE LoadedEntries(_, _)
LoadedEntries(data, t) ==
    IF data = <<>> THEN <<>>
    ELSE IF Len(Head(data)) >= 2
         THEN << <<Head(data)[1], Head(data)[2],
                   IF Len(Head(data)) > 2 THEN Head(data)[3] ELSE TsText(t)>> >>
                \o LoadedEntries(Tail(data), t)
         ELSE LoadedEntries(Tail(data), t)

\* the messages of a conversation: plain text, and text with a quote, a
\* backslash followed by n, and a line break
ConvMsgs == { <<"h", "i">>, <<Quote, Backslash, "n", NL>> }

\* who says what: the user either message, the model the second one
ConvSaid == ({You} \X ConvMsgs) \cup {<<preset_label, <<Quote, Backslash, "n", NL>>>>}

convOther == <<ui, use_local_var, now, shown, last_op, last_removed, storeVars,
               PREFS_LIMIT, workerVars, keyVars, twiceVars, callVars, ctlVars, reqVars, presetVars>>

InitConv ==
    /\ InitRunning /\ WorkerIdle /\ KeyIdle /\ TwiceIdle /\ CallIdle
    /\ settings = SettingsDefault
    /\ prefs_exists = FALSE
    /\ LogIdle /\ CtlIdle /\ ReqIdle /\ PresetIdle
    /\ conv_file = <<>>
    /\ saved_log = [full |-> <<>>, short |-> <<>>]
    /\ unsaved_changes = FALSE
    /\ cpc = "edit"

\* an entry is appended and the short-term history trimmed: by send_message
\* (lines 811-818, role You), by the worker (1185-1192) or by the timeout
\* callback (989-995)
AppendEntry ==
    /\ Len(full_history) < MaxLog
    /\ \E said \in ConvSaid :
         LET role == said[1]
             e == <<role, said[2], TsText(now)>>
         IN
           /\ history' = TrimHistory(Append(history, e), HISTORY_LIMIT)
           /\ full_history' = Append(full_history, e)
           /\ unsaved_changes' = IF role = You THEN TRUE ELSE unsaved_changes
    /\ cpc' = "edit"
    /\ UNCHANGED <<settings, HISTORY_LIMIT, conv_file, saved_log, convOther>>

\* limit_chat.on_save, lines 1476-1488
LimitChatSave ==
    /\ \E val \in Limits :
         /\ settings' = save_settings(settings, use_local_var, "None", "None",
                                      "None", val, NoInt, "None", now)
         /\ HISTORY_LIMIT' = val
    /\ UNCHANGED <<history, full_history, convVars, convOther>>

\* mutant of save_conversation: the trimmed short-term history is written
save_conversation_trimmed ==
    /\ conv_file' = EncList(Serial(history))
    /\ saved_log' = [full |-> full_history, short |-> history]
    /\ unsaved_changes' = FALSE
    /\ cpc' = "saved"
    /\ UNCHANGED <<settings, logVars, convOther>>

\* save_conversation, lines 1359-1396, with a path chosen
save_conversation ==
    /\ conv_file' = EncList(Serial(full_history))
    /\ saved_log' = [full |-> full_history, short |-> history]
    /\ unsaved_changes' = FALSE
    /\ cpc' = "saved"
    /\ UNCHANGED <<settings, logVars, convOther>>

\* load_conversation_file, lines 1399-1436, with the saved file chosen
load_conversation_file ==
    /\ conv_file # <<>>
    /\ LET data == JsonLoad(conv_file) IN
         /\ data.ok
         /\ history' = LoadedEntries(data.val, now)
         /\ full_history' = LoadedEntries(data.val, now)
    /\ unsaved_changes' = FALSE
    /\ cpc' = "loaded"
    /\ UNCHANGED <<settings, HISTORY_LIMIT, conv_file, saved_log, convOther>>

\* new_conversation, lines 1343-1356, confirmed
new_conversation ==
    /\ history' = <<>>
    /\ full_history' = <<>>
    /\ unsaved_changes' = FALSE
    /\ cpc' = "new"
    /\ UNCHANGED <<settings, HISTORY_LIMIT, conv_file, saved_log, convOther>>

NextConv ==
    \/ AppendEntry
    \/ LimitChatSave
    \/ save_conversation
    \/ load_conversation_file
    \/ new_conversation

SpecConv == InitConv /\ [][NextConv]_vars

(***************************************************************************)
(* The conversation log under the threads that write it.  A worker appends *)
(* its entry in three statements (history.append, full_history.append,     *)
(* _trim_history()), and the UI thread may run a callback or a menu        *)
(* command between any two of them.                                        *)
(***************************************************************************)
logOther == <<sent, wnew, wexisting, response_received, timeout_id, ctlVars,
              unsaved_changes, cpc, storeVars, sendOther>>

\* worker, lines 1139-1186 and 1226-1231: the chat call returns or raises;
\* the entry is built and appended to the short-term history
AppendToHistory(r) ==
    /\ wstate[r] = "chat"
    /\ payload' = [payload EXCEPT ![r] = InsertPrefs(@, prefs_exists, prefs)]
    /\ chat_calls' = [chat_calls EXCEPT ![r] = @ + 1]
    /\ \/ \E ai_reply \in ReplyPool :
            /\ wentry' = [wentry EXCEPT ![r] = <<preset_label, ai_reply, TsText(now)>>]
            /\ wstate' = [wstate EXCEPT ![r] = "reply_h"]
       \/ \E exc \in ExcPool :
            /\ wentry' = [wentry EXCEPT ![r] = <<preset_label, ErrText(exc), TsText(now)>>]
            /\ wstate' = [wstate EXCEPT ![r] = "error_h"]
    /\ history' = Append(history, wentry'[r])
    /\ UNCHANGED <<full_history, log_req, after0, logOther>>

\* worker, lines 1188 and 1232: the entry is appended to the full log
AppendToFull(r) ==
    /\ wstate[r] \in {"reply_h", "error_h"}
    /\ full_history' = Append(full_history, wentry[r])
    /\ log_req' = Append(log_req, Tag(r, IF wstate[r] = "reply_h" THEN "reply" ELSE "error"))
    /\ wstate' = [wstate EXCEPT ![r] = IF @ = "reply_h" THEN "reply_f" ELSE "error_f"]
    /\ UNCHANGED <<history, wentry, payload, chat_calls, after0, logOther>>

\* worker, lines 1189-1224 and 1233-1240: _trim_history(); after a reply
\* on_success is queued for the UI thread
TrimAfterAppend(r) ==
    /\ wstate[r] \in {"reply_f", "error_f"}
    /\ history' = TrimHistory(history, HISTORY_LIMIT)
    /\ wentry' = [wentry EXCEPT ![r] = <<>>]
    /\ IF wstate[r] = "reply_f"
       THEN /\ after0' = Append(after0, [req |-> r, cb |-> "on_success"])
            /\ wstate' = [wstate EXCEPT ![r] = "replied"]
       ELSE /\ after0' = after0
            /\ wstate' = [wstate EXCEPT ![r] = "raised"]
    /\ UNCHANGED <<full_history, log_req, payload, chat_calls, logOther>>

\* a conversation saved by an earlier run
EarlierLog == << <<You, <<"h", "i">>, TsText(0)>> >>

\* the main window is up with the history limit read from settings.json;
\* preferences.json holds one line; the conversations folder holds a file
InitLog ==
    /\ \E lim \in Limits : settings = [SettingsDefault EXCEPT !.ai_history_lines = lim]
    /\ HISTORY_LIMIT = StartupHistoryLimit(settings)
    /\ PREFS_LIMIT = StartupPrefsLimit(settings)
    /\ use_local_var = settings.use_local_ai
    /\ ui = "main"
    /\ now = 0
    /\ shown = NoShown
    /\ last_op = NoOp
    /\ last_removed = "None"
    /\ prefs_exists = TRUE
    /\ prefs = << <<"a", " ", "i", "s", " ", "x">> >>
    /\ history = <<>> /\ full_history = <<>>
    /\ WorkerIdle /\ KeyIdle /\ TwiceIdle /\ CallIdle
    /\ CtlIdle /\ ReqIdle /\ PresetIdle
    /\ conv_file = EncList(Serial(EarlierLog))
    /\ saved_log = [full |-> EarlierLog, short |-> EarlierLog]
    /\ unsaved_changes = FALSE
    /\ cpc = "edit"

NextLog ==
    \/ send_message
    \/ \E r \in Reqs : timeout_callback(r)
    \/ \E r \in Reqs : WorkerExtract(r)
    \/ \E r \in Reqs : WorkerMerge(r)
    \/ \E r \in Reqs : AppendToHistory(r)
    \/ \E r \in Reqs : AppendToFull(r)
    \/ \E r \in Reqs : TrimAfterAppend(r)
    \/ \E r \in Reqs : WorkerMarkReceived(r)
    \/ on_success
    \/ on_error
    \/ new_conversation
    \/ load_conversation_file

SpecLog == InitLog /\ [][NextLog]_vars

\* sending messages and saving the conversation meanwhile (File > Save stays
\* available while a request is awaiting its reply)
NextSave ==
    \/ NextSend
    \/ save_conversation

SpecSave == InitSend /\ [][NextSave]_vars

(***************************************************************************)
(* Leaving the program, lines 2388-2412.  on_exit asks about unsaved       *)
(* changes and, on Yes, calls save_conversation, whose file dialog may be  *)
(* cancelled and whose write may raise.                                    *)
(***************************************************************************)
\* the answers of askyesnocancel (line 2392): True, False, None
ExitAnswers == {"yes", "no", "cancel"}

\* what save_conversation meets: no path chosen (1366-1368), the file
\* written (1369-1392), an exception while opening or writing (1393-1394)
SaveOutcomes == {"nopath", "saved", "failed"}

\* lines 1377-1378 raising: open() raised and the file is as it was, or
\* json.dump raised after nothing or a part of the text was written
TornFiles(old, text) == {old, <<>>, SubSeq(text, 1, Len(text) \div 2)}

exitOther == <<use_local_var, now, shown, last_op, last_removed, storeVars,
               PREFS_LIMIT, workerVars, keyVars, twiceVars, callVars, ctlVars, reqVars, presetVars>>

\* mutant of on_exit: the window is destroyed after Yes whatever the save did
on_exit_anyway ==
    /\ ui = "main"
    /\ \/ /\ ~unsaved_changes
          /\ ui' = "off"
          /\ cpc' = "exit"
          /\ UNCHANGED <<conv_file, saved_log, unsaved_changes>>
       \/ /\ unsaved_changes
          /\ \E resp \in ExitAnswers :
               \/ /\ resp = "yes"
                  /\ \E out \in SaveOutcomes :
                       /\ cpc' = "exit_yes_" \o out
                       /\ ui' = "off"
                       /\ \/ /\ out = "nopath"
                             /\ UNCHANGED <<conv_file, saved_log, unsaved_changes>>
                          \/ /\ out = "saved"
                             /\ conv_file' = EncList(Serial(full_history))
                             /\ saved_log' = [full |-> full_history, short |-> history]
                             /\ unsaved_changes' = FALSE
                          \/ /\ out = "failed"
                             /\ conv_file' \in TornFiles(conv_file, EncList(Serial(full_history)))
                             /\ UNCHANGED <<saved_log, unsaved_changes>>
               \/ /\ resp = "no"
                  /\ cpc' = "exit_no"
                  /\ ui' = "off"
                  /\ UNCHANGED <<conv_file, saved_log, unsaved_changes>>
               \/ /\ resp = "cancel"
                  /\ cpc' = "exit_cancel"
                  /\ UNCHANGED <<ui, conv_file, saved_log, unsaved_changes>>
    /\ UNCHANGED <<settings, logVars, exitOther>>

\* on_exit, lines 2388-2412, with the call of save_conversation (1359-1396);
\* cpc records the answer and what the save met
on_exit ==
    /\ ui = "main"
    /\ \/ /\ ~unsaved_changes
          /\ ui' = "off"
          /\ cpc' = "exit"
          /\ UNCHANGED <<conv_file, saved_log, unsaved_changes>>
       \/ /\ unsaved_changes
          /\ \E resp \in ExitAnswers :
               \/ /\ resp = "yes"
                  /\ \E out \in SaveOutcomes :
                       /\ cpc' = "exit_yes_" \o out
                       /\ \/ /\ out = "nopath"
                             /\ UNCHANGED <<ui, conv_file, saved_log, unsaved_changes>>
                          \/ /\ out = "saved"
                             /\ conv_file' = EncList(Serial(full_history))
                             /\ saved_log' = [full |-> full_history, short |-> history]
                             /\ unsaved_changes' = FALSE
                             /\ ui' = "off"
                          \/ /\ out = "failed"
                             /\ conv_file' \in TornFiles(conv_file, EncList(Serial(full_history)))
                             /\ UNCHANGED <<ui, saved_log, unsaved_changes>>
               \/ /\ resp = "no"
                  /\ cpc' = "exit_no"
                  /\ ui' = "off"
                  /\ UNCHANGED <<conv_file, saved_log, unsaved_changes>>
               \/ /\ resp = "cancel"
                  /\ cpc' = "exit_cancel"
                  /\ UNCHANGED <<ui, conv_file, saved_log, unsaved_changes>>
    /\ UNCHANGED <<settings, logVars, exitOther>>

\* the main window is up: its entry field and menus answer
Open(A) == ui = "main" /\ A

NextExit ==
    \/ Open(AppendEntry)
    \/ Open(save_conversation)
    \/ Open(new_conversation)
    \/ on_exit

SpecExit == InitConv /\ [][NextExit]_vars

(***************************************************************************)
(* Properties of the merge                                                 *)
(***************************************************************************)
KeysOf(lst) == {pref_key(lst[i]) : i \in 1..Len(lst)}
NewKeys == KeysOf(new_lines)
\* the worker has rebuilt and truncated its list (and, at "chat", written it)
MergeDone == wpc = "save" \/ (wpc = "chat" /\ written.set)
\* the statement the last iteration of the apply loop handled
JustApplied == new_lines[idx - 1]

\* the sub-list of the entries whose key is not in K
RECURSIVE Without(_, _)
Without(lst, K) ==
    IF lst = <<>> THEN <<>>
    ELSE IF pref_key(Head(lst)) \in K THEN Without(Tail(lst), K)
         ELSE <<Head(lst)>> \o Without(Tail(lst), K)

\* the stored lines as loaded, stripped, blank ones left out
StoredLines == StripLines(existing)
\* i is the first stored line with its key
FirstOfKey(i) == \A j \in 1..(i - 1) : pref_key(StoredLines[j]) # pref_key(StoredLines[i])
\* the stored lines that are the first with their key, in stored order
RECURSIVE FirstOccurrences(_, _)
FirstOccurrences(lst, seen) ==
    IF lst = <<>> THEN <<>>
    ELSE IF pref_key(Head(lst)) \in seen THEN FirstOccurrences(Tail(lst), seen)
         ELSE <<Head(lst)>> \o FirstOccurrences(Tail(lst), seen \cup {pref_key(Head(lst))})

StoredHasDuplicateKey == \E i \in 1..Len(StoredLines) : ~FirstOfKey(i)

\* C1: the list a merge writes to the preference store is never longer than
\* the retention limit the merge read, whatever limit in 0..50 is configured
C1_WrittenWithinLimit ==
    written.set => /\ limit \in 0..LimitCap
                   /\ Len(written.list) <= limit

\* C1 witness: a merge cut its list down to a positive limit and wrote it
C1_Witness ==
    /\ written.set
    /\ limit > 0
    /\ Len(merged) > limit
    /\ Len(written.list) = limit

\* C2: no two entries of the list a merge writes have the same key, and a key
\* the new lines do not mention keeps the line of its first stored occurrence
C2_WrittenKeysUnique ==
    written.set =>
      /\ \A i, j \in 1..Len(written.list) :
           i # j => pref_key(written.list[i]) # pref_key(written.list[j])
      /\ \A i \in 1..Len(written.list) :
           pref_key(written.list[i]) \notin NewKeys =>
             \E j \in 1..Len(StoredLines) :
               FirstOfKey(j) /\ StoredLines[j] = written.list[i]

\* C2 witness: the stored list held one key twice, the new lines repeat a key,
\* and the written list has two entries
C2_Witness ==
    /\ written.set
    /\ StoredHasDuplicateKey
    /\ \E i, j \in 1..Len(new_lines) :
         i # j /\ pref_key(new_lines[i]) = pref_key(new_lines[j])
    /\ Len(written.list) >= 2

\* C3: when the apply loop handles a new statement whose key is already
\* there, the key's line becomes the new statement (the old line is gone),
\* the key is there once and is the last element of the ordered key list,
\* and the other keys keep their order; in the list rebuilt before truncation
\* every key of a new statement has one entry, and the last element is the
\* last new statement
C3_ExistingKeyReplacedAndNewest ==
    /\ (wpc = "apply" /\ applied.set /\ applied.present) =>
         LET k == pref_key(JustApplied) IN
           /\ Last(keys) = k
           /\ mapping[k] = JustApplied
           /\ Cardinality({i \in 1..Len(keys) : keys[i] = k}) = 1
           /\ SubSeq(keys, 1, Len(keys) - 1) = RemoveFirst(applied.before, k)
           /\ applied.old # JustApplied =>
                \A x \in DOMAIN mapping : mapping[x] # applied.old
    /\ MergeDone =>
         /\ Last(merged) = Last(new_lines)
         /\ \A i \in 1..Len(new_lines) :
              Cardinality({j \in 1..Len(merged) :
                             pref_key(merged[j]) = pref_key(new_lines[i])}) = 1

\* C3 witness: the key of the statement just applied was the oldest of at
\* least two keys, with another line
C3_Witness ==
    /\ wpc = "apply" /\ applied.set /\ applied.present
    /\ Len(applied.before) >= 2
    /\ Head(applied.before) = pref_key(JustApplied)
    /\ applied.old # JustApplied
    /\ applied.old # <<>>

\* C4: when the apply loop handles a new statement whose key is not there,
\* the key is appended as the last element with the statement as its line;
\* in the list rebuilt before truncation the entries whose keys no new
\* statement mentions are the first stored occurrences, in their stored order
C4_NovelKeyAppendedOthersKeepOrder ==
    /\ (wpc = "apply" /\ applied.set /\ ~applied.present) =>
         /\ keys = Append(applied.before, pref_key(JustApplied))
         /\ mapping[pref_key(JustApplied)] = JustApplied
    /\ MergeDone =>
         LET kept == Without(merged, NewKeys) IN
           /\ kept = SubSeq(merged, 1, Len(kept))
           /\ kept = Without(FirstOccurrences(StoredLines, {}), NewKeys)

\* C4 witness: a statement with a novel key was appended after two stored
\* entries that no new statement mentions
C4_Witness ==
    /\ MergeDone
    /\ applied.set /\ ~applied.present
    /\ Len(Without(merged, NewKeys)) >= 2
    /\ Last(merged) = JustApplied

\* C5: the list enforced by the limit is exactly the last min(limit, n)
\* entries of the rebuilt list of n entries, in order; it is empty for limit
\* 0; and it is the list that is written
C5_TruncationDropsOldest ==
    MergeDone =>
      LET n == Len(merged)
          m == IF limit < n THEN limit ELSE n
      IN /\ final = SubSeq(merged, n - m + 1, n)
         /\ (limit = 0 => final = <<>>)
         /\ written.set => written.list = final

\* C5 witness: a written list that lost its oldest entries to a positive limit
C5_Witness ==
    /\ written.set
    /\ limit > 0
    /\ limit < Len(merged)
    /\ prefs = final

\* C27 as stated: when preferences.json comes back after Clear Preferences
\* removed it under a running worker, it holds none of the lines the worker
\* had loaded before the clearing, only lines of the extraction reply
C27_AsStated ==
    [][(~prefs_exists /\ prefs_exists' /\ existing # <<>>)
         => \A i \in 1..Len(prefs') :
              \E j \in 1..Len(new_lines) : prefs'[i] = new_lines[j]]_vars

\* C28 as stated, in the case it names: right after the limit is lowered in
\* the limit dialog, the preference store holds at most as many entries as
\* the new limit
C28_AsStated ==
    [][(PREFS_LIMIT' < PREFS_LIMIT /\ prefs_exists')
         => Len(prefs') <= PREFS_LIMIT']_vars

(***************************************************************************)
(* Properties of a statement merged twice                                  *)
(***************************************************************************)
\* C6 as stated: after the second merge of the same statement the key set is
\* the one after the first merge and the statement is the newest stored entry
C6_AsStated ==
    rpc = "twice" =>
      /\ KeysOf(rsecond) = KeysOf(rfirst)
      /\ rsecond # <<>>
      /\ Last(rsecond) = Strip(rstmt)

\* C6 amended: after the second merge of the same statement the key set is
\* the one after the first merge; with a limit of at least 1 the statement is
\* the newest stored entry after either merge, with limit 0 the store is empty
C6_ResubmitIdempotent ==
    /\ rpc \in {"once", "twice"} =>
         /\ rlimit >= 1 => (prefs # <<>> /\ Last(prefs) = Strip(rstmt))
         /\ rlimit = 0 => prefs = <<>>
    /\ rpc = "twice" =>
         /\ KeysOf(rsecond) = KeysOf(rfirst)
         /\ prefs = rsecond

\* C6 witness: the statement replaced the oldest of two stored entries, and
\* was merged again
C6_Witness ==
    /\ rpc = "twice"
    /\ rlimit >= 2
    /\ Len(rsecond) >= 2
    /\ Last(rsecond) = Strip(rstmt)
    /\ rfirst[1] # Strip(rstmt)

(***************************************************************************)
(* Properties of pref_key                                                  *)
(***************************************************************************)
\* C7 as stated: the key is the lower-cased text before the first ' is '
C7_AsStated ==
    kpc = "keyed" =>
      /\ HasSep(stmt1) => key1 = Lower(BeforeSep(stmt1))
      /\ HasSep(stmt2) => key2 = Lower(BeforeSep(stmt2))
      /\ key1 = key2

\* C7 amended: the key is the lower-cased text before the first ' is '
\* (letter case ignored in the match) with the white space around it removed,
\* and the whole lower-cased statement when there is no ' is '; statements
\* that differ in letter case before the first ' is ' or in the text after it
\* have the same key
C7_KeyIsTrimmedLowerPrefix ==
    kpc = "keyed" =>
      /\ key1 = IF HasSep(stmt1) THEN Strip(Lower(BeforeSep(stmt1))) ELSE Lower(stmt1)
      /\ key2 = IF HasSep(stmt2) THEN Strip(Lower(BeforeSep(stmt2))) ELSE Lower(stmt2)
      /\ key1 = key2

\* C7 witness: two statements with ' is ', different letter case before it
\* and different text after it, the second with a later ' is ' too
C7_Witness ==
    /\ kpc = "keyed"
    /\ HasSep(stmt1) /\ HasSep(stmt2)
    /\ BeforeSep(stmt1) # BeforeSep(stmt2)
    /\ Cardinality(SepAt(stmt2)) >= 2
    /\ Len(stmt1) # Len(stmt2)
    /\ key1 # <<>>

(***************************************************************************)
(* Properties of the credential prompts                                    *)
(***************************************************************************)
BothMissing == shown.key = "None" /\ shown.ep = "None"
OneMissing == (shown.key = "None") # (shown.ep = "None")
BothSaved == shown.key # "None" /\ shown.ep # "None"

\* C8: at startup and right after a removal in a settings dialog, when both
\* credentials are absent the first prompt shown is the API-key prompt for
\* marker api_key, the endpoint prompt for marker server_endpoint, and the
\* API-key prompt when there is no marker
C8_BothMissingPromptFollowsMarker ==
    (shown.kind \in {"startup", "remove_key", "remove_ep"} /\ BothMissing) =>
      shown.prompt = CASE shown.marker = "api_key" -> "prompt_key"
                       [] shown.marker = "server_endpoint" -> "prompt_ep"
                       [] OTHER -> "prompt_key"

\* C8 witness: a startup with both credentials absent and marker
\* server_endpoint, the endpoint prompt up
C8_Witness ==
    /\ shown.kind = "startup" /\ BothMissing
    /\ shown.marker = "server_endpoint"
    /\ shown.prompt = "prompt_ep"
    /\ ui = "prompt_ep"

\* C9 as stated: at startup with exactly one credential missing the prompt
\* for the missing one is shown, whatever the mode flag is
C9_AsStated ==
    (shown.kind = "startup" /\ OneMissing) =>
      shown.prompt = IF shown.key = "None" THEN "prompt_key" ELSE "prompt_ep"

\* C9 amended: at startup with exactly one credential missing, the prompt for
\* the missing one is shown when the persisted mode flag is the mode that
\* uses it (local: API key, server: endpoint), and no prompt is shown when
\* the flag is the other mode
C9_OneMissingPromptedInItsMode ==
    (shown.kind = "startup" /\ OneMissing) =>
      shown.prompt = IF shown.key = "None" /\ shown.local THEN "prompt_key"
                     ELSE IF shown.ep = "None" /\ ~shown.local THEN "prompt_ep"
                     ELSE "main"

\* C9 witness: a startup in local mode with the endpoint saved and no API
\* key, the API-key prompt up
C9_Witness ==
    /\ shown.kind = "startup"
    /\ shown.key = "None" /\ shown.ep # "None"
    /\ shown.local
    /\ shown.prompt = "prompt_key"
    /\ ui = "prompt_key"

\* C10: at startup with both credentials saved no prompt is shown, in local
\* mode and in server mode
C10_BothSavedNoPrompt ==
    (shown.kind = "startup" /\ BothSaved) => shown.prompt = "main"

\* C10 witness: a startup in server mode with both credentials saved, the
\* main window up
C10_Witness ==
    /\ shown.kind = "startup" /\ BothSaved
    /\ ~shown.local
    /\ ui = "main"
    /\ settings.openai_api_key \in KeyVals /\ settings.server_endpoint \in EpVals

(***************************************************************************)
(* Properties of the mode changes                                          *)
(***************************************************************************)
\* C11: a click on the mode checkbox leaves the new mode in the persisted
\* flag, and then the API-key prompt is up iff the new mode is local and no
\* API key is saved, the endpoint prompt iff the new mode is server and no
\* endpoint is saved, and no prompt otherwise; no credential is changed
C11_TogglePersistsThenPrompts ==
    last_op.kind = "toggle" =>
      /\ last_op.ui_before = "main"
      /\ last_op.var = ~last_op.var_before
      /\ last_op.flag = last_op.var
      /\ last_op.key = last_op.key_before /\ last_op.ep = last_op.ep_before
      /\ (last_op.prompt = "prompt_key") <=> (last_op.var /\ last_op.key = "None")
      /\ (last_op.prompt = "prompt_ep") <=> (~last_op.var /\ last_op.ep = "None")
      /\ last_op.prompt \in {"main", "prompt_key", "prompt_ep"}

\* C11 witness: the checkbox was set to server mode with an API key saved and
\* no endpoint, and the endpoint prompt is up
C11_Witness ==
    /\ last_op.kind = "toggle"
    /\ ~last_op.var /\ last_op.key # "None" /\ last_op.ep = "None"
    /\ ui = "prompt_ep"
    /\ settings.use_local_ai = FALSE /\ use_local_var = FALSE

\* C12: the switch button of a credential prompt leaves the mode of the other
\* credential in the persisted flag and in the checkbox, closes the prompt,
\* opens the other credential's prompt iff that credential is not saved, and
\* leaves both credentials as they were
C12_SwitchChangesModeOnly ==
    /\ last_op.kind = "switch_to_server" =>
         /\ last_op.ui_before = "prompt_key"
         /\ ~last_op.var /\ ~last_op.flag
         /\ last_op.prompt = IF last_op.ep = "None" THEN "prompt_ep" ELSE "main"
         /\ last_op.key = last_op.key_before /\ last_op.ep = last_op.ep_before
    /\ last_op.kind = "switch_to_local" =>
         /\ last_op.ui_before = "prompt_ep"
         /\ last_op.var /\ last_op.flag
         /\ last_op.prompt = IF last_op.key = "None" THEN "prompt_key" ELSE "main"
         /\ last_op.key = last_op.key_before /\ last_op.ep = last_op.ep_before

\* C12 witness: in local mode with nothing saved the switch button of the
\* API-key prompt was pressed, and the endpoint prompt is up in server mode
C12_Witness ==
    /\ last_op.kind = "switch_to_server"
    /\ last_op.var_before
    /\ last_op.key = "None" /\ last_op.ep = "None"
    /\ ui = "prompt_ep"
    /\ ~use_local_var /\ ~settings.use_local_ai

(***************************************************************************)
(* Properties of the last-deleted marker                                   *)
(***************************************************************************)
\* C16: the persisted last-deleted marker is absent, api_key or
\* server_endpoint: absent as long as no credential was removed, and after
\* that the name of the credential removed most recently, whatever saves,
\* mode changes and restarts came in between; its timestamp is there exactly
\* when the marker is
C16_MarkerIsLastRemoval ==
    /\ settings.last_credential_deleted \in {"None", "api_key", "server_endpoint"}
    /\ settings.last_credential_deleted = last_removed
    /\ (settings.last_credential_deleted = "None") <=>
         (settings.last_credential_deleted_ts = NoInt)

\* C16 witness: the endpoint was the last credential removed, with no API key
\* saved at the time, and an API key was saved afterwards: the marker still
\* names the endpoint
C16_Witness ==
    /\ last_removed = "server_endpoint"
    /\ shown.kind = "remove_ep" /\ shown.key = "None"
    /\ settings.openai_api_key \in KeyVals
    /\ settings.server_endpoint = "None"
    /\ settings.last_credential_deleted = "server_endpoint"

(***************************************************************************)
(* Properties of the requests                                              *)
(***************************************************************************)
\* the positions of the log entries of request r of one kind
EntriesOf(r, kind) == {i \in 1..Len(log_req) : log_req[i] = Tag(r, kind)}
Has(r, kind) == EntriesOf(r, kind) # {}
\* the worker of request r has not finished its chat call
Running(r) == wstate[r] \in {"prefs", "merge", "chat"}
\* request r was sent and has no reply, error or timeout entry yet
Awaiting(r) ==
    /\ r <= sent
    /\ ~Has(r, "reply") /\ ~Has(r, "error") /\ ~Has(r, "timeout")

\* C13: for no request does the conversation log hold both the timeout
\* message and a reply or error entry of that request
C13_AsStated ==
    \A r \in Reqs :
      ~(Has(r, "timeout") /\ (Has(r, "reply") \/ Has(r, "error")))

\* C14: when the chat call of a request has failed, the log holds exactly one
\* "Error: ..." entry of that request and no reply of it, and one chat call
\* was made for it; no request has more than one chat call, and a request
\* whose chat call did not fail has no error entry
C14_FailureSurfacedOnceNoRetry ==
    \A r \in Reqs :
      /\ chat_calls[r] <= 1
      /\ wstate[r] \in {"raised", "failed"} =>
           /\ Cardinality(EntriesOf(r, "error")) = 1
           /\ \A i \in EntriesOf(r, "error") :
                /\ full_history[i][1] = preset_label
                /\ full_history[i][2] \in {ErrText(e) : e \in ExcPool}
           /\ ~Has(r, "reply")
           /\ chat_calls[r] = 1
      /\ wstate[r] \notin {"raised", "failed"} => ~Has(r, "error")

\* C14 witness: the chat call of the first request failed, its error entry is
\* the last of the log, on_error has run and the controls are enabled again
C14_Witness ==
    /\ wstate[1] = "failed"
    /\ after0 = <<>>
    /\ log_req # <<>> /\ Last(log_req) = Tag(1, "error")
    /\ Last(full_history)[2] \in {ErrText(e) : e \in ExcPool}
    /\ chat_calls[1] = 1
    /\ send_btn = "normal" /\ entry = "normal"

\* C15: Clear Preferences never removes the preference file while a worker is
\* between its read of the stored list and its write of the merged list
C15_AsStated ==
    [][(prefs_exists /\ ~prefs_exists') => wpc \notin {"apply", "save"}]_vars

\* C19: while some sent request has neither reply, error nor timeout entry,
\* the Send button and the entry field are disabled
C19_AsStated ==
    (\E r \in Reqs : Awaiting(r)) => (send_btn = "disabled" /\ entry = "disabled")

\* C20: at most one worker is before the end of its chat call
C20_AsStated ==
    Cardinality({r \in Reqs : Running(r)}) <= 1

\* C21: with the callbacks of the UI thread run eventually (a due timer, a
\* queued on_success or on_error), disabled send controls are always enabled
\* again later, whether the worker replies, fails or never moves on
C21_ControlsEventuallyEnabled ==
    (entry = "disabled") ~> (entry = "normal" /\ send_btn = "normal")

\* C21 witness: the second request's worker never got past the extraction
\* call, its timer fired with the flag unset, and the controls are enabled
C21_Witness ==
    /\ sent = 2
    /\ wstate[2] = "prefs"
    /\ timeout_id[2] = "fired"
    /\ Has(2, "timeout")
    /\ entry = "normal" /\ send_btn = "normal"

\* the worker of request r is past the extraction call, which gave no text
NoTextExtracted(r) == wstate[r] \notin {"none", "prefs"} /\ wnew[r] = <<>>

\* C26: a worker whose extraction call failed or returned no text never
\* changes the preference store in any of its steps, goes on to the chat
\* call, and has made that call exactly once when it is done
C26_NoTextKeepsStoreAndCalls ==
    /\ [][\A r \in Reqs :
             (wnew[r] = <<>> /\ wnew'[r] = <<>> /\ wstate'[r] # wstate[r])
               => (prefs' = prefs /\ prefs_exists' = prefs_exists)]_vars
    /\ [](\A r \in Reqs :
             NoTextExtracted(r) =>
               /\ wstate[r] \in {"chat", "replied", "raised", "failed"}
               /\ chat_calls[r] = (IF wstate[r] = "chat" THEN 0 ELSE 1))

\* C26 witness: the extraction call of request 1 gave no text, its chat call
\* was made and answered, and preferences.json is as it was at the start
C26_Witness ==
    /\ NoTextExtracted(1)
    /\ wstate[1] = "replied"
    /\ chat_calls[1] = 1
    /\ Has(1, "reply")
    /\ prefs_exists /\ prefs = << <<"a", " ", "i", "s", " ", "x">> >>

(***************************************************************************)
(* Properties of the conversation log                                      *)
(***************************************************************************)
IsSuffix(h, f) == Len(h) <= Len(f) /\ SubSeq(f, Len(f) - Len(h) + 1, Len(f)) = h

\* no worker is between its history.append and the end of its _trim_history()
NoHalfAppend == \A r \in Reqs : wstate[r] \notin {"reply_h", "error_h", "reply_f", "error_f"}

\* C22 as stated: whenever no append is half done, the short-term history
\* is a suffix of the full conversation log
C22_AsStated == NoHalfAppend => IsSuffix(history, full_history)

C29_AsStated == cpc = "new" => (history = <<>> /\ full_history = <<>>)

\* the full log holds an entry that the file last written does not hold at
\* the same place (no file written: every entry)
HoldsUnsavedEntry ==
    \E i \in 1..Len(full_history) :
      i > Len(saved_log.full) \/ full_history[i] # saved_log.full[i]

\* C30 as stated: whenever the full log holds an entry that is not in the
\* file last saved, unsaved_changes is true
C30_AsStated == HoldsUnsavedEntry => unsaved_changes

(***************************************************************************)
(* Properties of the payload                                               *)
(***************************************************************************)
\* the message request r sent, read from its entry in the log
MessageOf(r) == full_history[CHOOSE i \in EntriesOf(r, "You") : TRUE][2]

\* the positions of the payload of r holding the message as a user message
UserCopies(r) == {i \in 1..Len(payload[r]) : payload[r][i] = Msg("user", MessageOf(r))}

\* the chat call of request r has been made
Called(r) == wstate[r] \in {"replied", "raised", "failed"}

\* C24: under every history limit, 0 included, the payload of a request ends
\* with a user message holding the message just sent, and no copy of that
\* message directly follows another (the copy the trimmed history supplied
\* is not followed by a second one)
C24_PayloadHoldsMessageOnce ==
    \A r \in 1..sent :
      /\ UserCopies(r) # {}
      /\ Last(payload[r]) = Msg("user", MessageOf(r))
      /\ \A i \in UserCopies(r) : (i - 1) \notin UserCopies(r)

\* C24 witness: with the limit 0 the history is empty when the second payload
\* is built, and the payload holds the message once, after the system messages
C24_Witness ==
    /\ HISTORY_LIMIT = 0
    /\ sent = 2
    /\ history = <<>>
    /\ wstate[2] = "prefs"
    /\ payload[2] = << Msg("system", SystemIntro), Msg("system", personality_instruction),
                       Msg("user", MessageOf(2)) >>

\* C25: in the payload of a request every system message precedes every
\* user or assistant message, before and after the preferences are inserted
C25_SystemMessagesFirst ==
    \A r \in 1..sent :
      \A i, j \in 1..Len(payload[r]) :
        (i < j /\ payload[r][j].role = "system") => payload[r][i].role = "system"

\* C25 witness: the chat call of the second request was made with the
\* preferences inserted third, before a user, an assistant and a user message
C25_Witness ==
    /\ sent = 2
    /\ Called(2)
    /\ prefs_exists
    /\ Len(payload[2]) = 6
    /\ payload[2][3] = Msg("system", Strip(PrefsText(prefs)))
    /\ payload[2][4].role = "user"
    /\ payload[2][5].role = "assistant"
    /\ payload[2][6].role = "user"

(***************************************************************************)
(* Properties of the startup preset                                        *)
(***************************************************************************)
\* C18: after startup with a last selected preset that names a file of 8
\* integers, each of the eight sliders has the value at its position in the
\* list (friendliness, professionalism, profanity, age, gender, humour,
\* sarcasm, extroversion)
C18_AsStated ==
    (ppc = "file" /\ Len(PresetVals(preset_file)) = 8) =>
      LET vals == PresetVals(preset_file) IN
        /\ sliders.friendliness = vals[1]
        /\ sliders.professionalism = vals[2]
        /\ sliders.profanity = vals[3]
        /\ sliders.age = vals[4]
        /\ sliders.gender = vals[5]
        /\ sliders.humor = vals[6]
        /\ sliders.sarcasm = vals[7]
        /\ sliders.introversion = vals[8]

(***************************************************************************)
(* Properties of saving and loading a conversation                         *)
(***************************************************************************)
\* C17: right after the saved file is loaded, the conversation log equals,
\* entry for entry and in order, the untrimmed log of [role, message,
\* timestamp] triples at the time of saving, whatever was appended, trimmed
\* or cleared in between; so does the short-term history
C17_SaveLoadRoundTrip ==
    cpc = "loaded" =>
      /\ full_history = saved_log.full
      /\ history = saved_log.full
      /\ \A i \in 1..Len(full_history) : Len(full_history[i]) = 3

\* C17 witness: a conversation whose short-term history had lost an entry was
\* saved, the log changed afterwards, and the file was loaded; a message of
\* it holds a quote, a backslash and a line break
C17_Witness ==
    /\ cpc = "loaded"
    /\ Len(saved_log.full) >= 2
    /\ Len(saved_log.short) < Len(saved_log.full)
    /\ full_history = saved_log.full
    /\ \E i \in 1..Len(full_history) : full_history[i][2] = <<Quote, Backslash, "n", NL>>

(***************************************************************************)
(* Properties of leaving the program                                       *)
(***************************************************************************)
\* an exit request with the unsaved-changes flag set has just been answered
ExitAsked == ui = "main" /\ unsaved_changes /\ cpc' \in
               {"exit_no", "exit_cancel", "exit_yes_saved", "exit_yes_nopath", "exit_yes_failed"}
\* the conversation the program holds
ConvState == <<history, full_history, unsaved_changes>>

\* C31: on an exit request with the unsaved-changes flag set, the main window
\* is destroyed only if the answer is No, or Yes with a successful save; on
\* Cancel, or on Yes with a cancelled or failed save, the window stays open
\* and the conversation state is unchanged.
C31_ExitOnlyOnNoOrSaved ==
    [][ExitAsked =>
         /\ (ui' = "off") <=> (cpc' \in {"exit_no", "exit_yes_saved"})
         /\ (cpc' \in {"exit_cancel", "exit_yes_nopath", "exit_yes_failed"})
              => (ui' = "main" /\ ConvState' = ConvState)]_vars
\* Yes was answered and the write raised: the window is up, the entries are
\* unsaved and the file does not hold them
C31_Witness ==
    /\ cpc = "exit_yes_failed" /\ ui = "main" /\ unsaved_changes
    /\ Len(full_history) = 2
    /\ conv_file # EncList(Serial(full_history))

(***************************************************************************)
(* Properties of save_settings                                             *)
(***************************************************************************)
\* a call of save_settings has just been made (the clock stands during it)
SsCalled == ss_call'.made /\ now' = now
\* the fields of the settings record a call was not given keep their values
FrameKept(before, a, after) ==
    /\ a.api_key = "None" => after.openai_api_key = before.openai_api_key
    /\ a.endpoint = "None" => after.server_endpoint = before.server_endpoint
    /\ a.last_deleted = "None" =>
         /\ after.last_credential_deleted = before.last_credential_deleted
         /\ after.last_credential_deleted_ts = before.last_credential_deleted_ts
    /\ a.ai_history_lines = NoInt => after.ai_history_lines = before.ai_history_lines
    /\ a.pref_memory_lines = NoInt => after.pref_memory_lines = before.pref_memory_lines
    /\ a.ai_model = "None" => after.ai_model = before.ai_model

\* C32: save_settings changes only the local-mode flag and the fields passed
\* as non-None arguments; every other field of the persisted record (API key,
\* endpoint, last-deleted marker and timestamp, both retention counts, model)
\* is unchanged; in particular a call with the flag alone, as the mode toggle
\* makes, leaves both credentials untouched.
C32_SaveSettingsFrame ==
    [][SsCalled =>
         /\ FrameKept(settings, ss_call'.args, settings')
         /\ Given(ss_call'.args) = {} =>
              /\ settings'.openai_api_key = settings.openai_api_key
              /\ settings'.server_endpoint = settings.server_endpoint]_vars
\* every field is set (the marker at an earlier time) and the last call was
\* the toggle's: the flag alone, now server mode
C32_Witness ==
    /\ ss_call.made /\ Given(ss_call.args) = {} /\ ~ss_call.args.use_local
    /\ settings.use_local_ai = FALSE
    /\ settings.openai_api_key \in KeyVals /\ settings.server_endpoint \in EpVals
    /\ settings.last_credential_deleted = "api_key"
    /\ settings.last_credential_deleted_ts < now
    /\ settings.last_credential_deleted_ts # NoInt
    /\ settings.ai_history_lines \in LinesVals /\ settings.pref_memory_lines \in LinesVals
    /\ settings.ai_model \in ModelVals
====
